---- MODULE Spec2Model ----
(***************************************************************************)
(* Model of quinn-proto's stream multiplexing core,                        *)
(* src/quinn-proto/src/connection/streams.rs (struct Streams, Send, Recv). *)
(*                                                                         *)
(* Integers are scaled down: a VarInt ranges over 0..Pow62-1 and a u64     *)
(* over 0..U64Max, with U64Max + 1 = 4 * Pow62 as 2^64 = 4 * 2^62.  u64    *)
(* additions and subtractions wrap (release build) unless the source uses  *)
(* saturating arithmetic.                                                  *)
(*                                                                         *)
(* The send buffer (SendBuffer), the reassembly buffer (Assembler) and     *)
(* StreamId live outside streams.rs; they are modelled from their          *)
(* contracts (spec sections 3, 4.3, 4.4).                                  *)
(***************************************************************************)
EXTENDS Integers, Sequences, FiniteSets, TLC

\* ---------------------------------------------------------------- bounds
\* scaled 2^62: VarInt values are 0..Pow62-1, stream offsets stay below it
Pow62 == 3
\* stream indices that frames and calls may name: 0..MaxIndex
MaxIndex == 1
\* the longest data slice handed to write
MaxWrite == 2
\* the largest max_buf_size handed to write_stream_frames
MaxBuf == 4
\* the events queue is capped at this length
MaxEvents == 1
\* application error codes are 0..MaxCode
MaxCode == 0
\* frames sent and neither acknowledged nor declared lost
MaxInflight == 2
\* the pending queue is capped at this length
MaxPending == 2
\* write is not called once it would take a stream's offset beyond this
MaxOffset == 2
\* open is not called once send_streams has counted this many streams
MaxSendStreams == 2

U64Mod == 4 * Pow62
U64Max == U64Mod - 1
VarIntMax == Pow62 - 1

\* ------------------------------------------------------------ arithmetic
Min(a, b) == IF a <= b THEN a ELSE b
Max(a, b) == IF a >= b THEN a ELSE b
\* u64 `a - b` and `a + b`, wrapping
SubU64(a, b) == (a - b + U64Mod) % U64Mod
AddU64(a, b) == (a + b) % U64Mod
\* u64::saturating_add, u64::saturating_sub
SatAdd(a, b) == Min(a + b, U64Max)
SatSub(a, b) == IF a >= b THEN a - b ELSE 0

Put(f, k, v) == [x \in (DOMAIN f) \cup {k} |-> IF x = k THEN v ELSE f[x]]
Drop(f, k) == [x \in (DOMAIN f) \ {k} |-> f[x]]
Range(s) == {s[i] : i \in DOMAIN s}

\* ---------------------------------------------------------------- StreamId
Sides == {"Client", "Server"}
Dirs == {"Bi", "Uni"}
\* Dir::iter() order
DirSeq == <<"Bi", "Uni">>
SideBit(s) == IF s = "Client" THEN 0 ELSE 1
DirBit(d) == IF d = "Bi" THEN 0 ELSE 1
Other(s) == IF s = "Client" THEN "Server" ELSE "Client"
\* the width of the integer that holds a StreamId (u64), scaled
IdBits == 6
IdMod == 2 ^ IdBits
\* a StreamId::new that puts the side above the directionality
NewIdSideAboveDir(s, d, i) == (i * 4 + SideBit(s) * 2 + DirBit(d)) % IdMod
\* StreamId::new: (index << 2) | (dir << 1) | side; the shift drops the two
\* highest bits of index
NewId(s, d, i) == (i * 4 + DirBit(d) * 2 + SideBit(s)) % IdMod
Initiator(id) == IF id % 2 = 0 THEN "Client" ELSE "Server"
IdDir(id) == IF (id \div 2) % 2 = 0 THEN "Bi" ELSE "Uni"
Index(id) == id \div 4

AllIds == {NewId(s, d, i) : s \in Sides, d \in Dirs, i \in 0..MaxIndex}
NoCode == 0 - 1
NoVal == 0 - 1
Codes == 0..MaxCode

\* -------------------------------------------------------------- SendBuffer
\* offset: bytes ever written; unsent: first offset never transmitted;
\* acks: acknowledged byte offsets; retransmits: FIFO of lost ranges <<s, e>>
SendBufferNew == [offset |-> 0, unsent |-> 0, acks |-> {}, retransmits |-> <<>>]
SBWrite(b, n) == [b EXCEPT !.offset = AddU64(@, n)]
SBAck(b, s, e) == [b EXCEPT !.acks = @ \cup {x \in s..(e - 1) : x < b.offset}]
SBIsFullyAcked(b) == Cardinality(b.acks) = b.offset
SBHasUnsentData(b) == b.unsent # b.offset \/ b.retransmits # <<>>
SBUnacked(b) == b.offset - Cardinality(b.acks)
SBRetransmit(b, s, e) == IF s < e THEN [b EXCEPT !.retransmits = Append(@, <<s, e>>)] ELSE b
SBRetransmitAllFor0rtt(b) == [b EXCEPT !.unsent = 0, !.retransmits = <<>>]
\* poll_transmit(max_len): the range to transmit and the buffer afterwards
SBPollTransmit(b, max_len) ==
    IF b.retransmits # <<>>
    THEN LET r == Head(b.retransmits)
             e == Min(r[2], r[1] + max_len)
         IN [range |-> <<r[1], e>>,
             buf |-> [b EXCEPT !.retransmits =
                        IF e # r[2] THEN <<(<<e, r[2]>>)>> \o Tail(@) ELSE Tail(@)]]
    ELSE LET e == Min(b.offset, b.unsent + max_len)
         IN [range |-> <<b.unsent, e>>, buf |-> [b EXCEPT !.unsent = e]]

\* -------------------------------------------------------------------- Send
SendNew(md) ==
    [max_data |-> md, state |-> "Ready", finish_acked |-> FALSE,
     pending |-> SendBufferNew, fin_pending |-> FALSE,
     connection_blocked |-> FALSE, stop_reason |-> NoCode]
SendIsReset(s) == s.state \in {"ResetSent", "ResetRecvd"}
SendIsPending(s) == SBHasUnsentData(s.pending) \/ s.fin_pending
SendIsWritable(s) == s.state = "Ready"
SendOffset(s) == s.pending.offset
\* Send::finish: the result and the stream afterwards
SendFinish(s) ==
    IF s.stop_reason # NoCode THEN [res |-> "Stopped", val |-> s.stop_reason, stream |-> s]
    ELSE IF s.state = "Ready"
    THEN [res |-> "Ok", val |-> NoVal,
          stream |-> [s EXCEPT !.state = "DataSent", !.finish_acked = FALSE,
                               !.fin_pending = TRUE]]
    ELSE [res |-> "UnknownStream", val |-> NoVal, stream |-> s]
\* Send::write of a slice of len bytes
SendWrite(s, len) ==
    IF ~SendIsWritable(s) THEN [res |-> "UnknownStream", val |-> NoVal, stream |-> s]
    ELSE IF s.stop_reason # NoCode THEN [res |-> "Stopped", val |-> s.stop_reason, stream |-> s]
    ELSE LET budget == SubU64(s.max_data, s.pending.offset) IN
         IF budget = 0 THEN [res |-> "Blocked", val |-> NoVal, stream |-> s]
         ELSE [res |-> "Ok", val |-> Min(len, budget),
               stream |-> [s EXCEPT !.pending = SBWrite(@, Min(len, budget))]]
SendReset(s) ==
    IF s.state \in {"DataSent", "Ready"}
    THEN [s EXCEPT !.state = "ResetSent", !.finish_acked = FALSE] ELSE s
\* stop that does not record the code
SendStopForgets(s, error_code) == s
SendStop(s, error_code) == [s EXCEPT !.stop_reason = error_code]
\* Send::ack of a frame <<start, end, fin>>
SendAck(s, start, end, fin) ==
    LET p == SBAck(s.pending, start, end) IN
    IF s.state = "DataSent"
    THEN LET fa == s.finish_acked \/ fin IN
         IF fa /\ SBIsFullyAcked(p)
         THEN [s EXCEPT !.pending = p, !.state = "DataRecvd", !.finish_acked = FALSE]
         ELSE [s EXCEPT !.pending = p, !.finish_acked = fa]
    ELSE [s EXCEPT !.pending = p]
\* increase_max_data that reports every increase as an unblocking
SendIncreaseMaxDataAlwaysUnblocks(s, offset) ==
    IF offset <= s.max_data \/ s.state # "Ready" THEN [unblocked |-> FALSE, stream |-> s]
    ELSE [unblocked |-> TRUE, stream |-> [s EXCEPT !.max_data = offset]]

\* Send::increase_max_data: whether the stream was unblocked, and the stream
SendIncreaseMaxData(s, offset) ==
    IF offset <= s.max_data \/ s.state # "Ready" THEN [unblocked |-> FALSE, stream |-> s]
    ELSE [unblocked |-> s.pending.offset = s.max_data,
          stream |-> [s EXCEPT !.max_data = offset]]

\* --------------------------------------------------------------- Assembler
\* end: highest offset observed; bytes_read: bytes delivered; recvd: byte
\* offsets ever buffered (insert deduplicates against it); buf: buffered and
\* undelivered byte offsets; unordered: an unordered read has happened
AssemblerNew ==
    [end |-> 0, bytes_read |-> 0, recvd |-> {}, buf |-> {},
     stopped |-> FALSE, unordered |-> FALSE]
AsmInsert(a, offset, len) ==
    LET bytes == offset..(offset + len - 1) IN
    IF a.stopped THEN [a EXCEPT !.end = Max(@, offset + len)]
    ELSE [a EXCEPT !.end = Max(@, offset + len),
                   !.buf = @ \cup (bytes \ a.recvd),
                   !.recvd = @ \cup bytes]
\* the number of bytes an ordered read into a buffer of n bytes delivers
AsmReadLen(a, n) ==
    LET fits(k) == \A x \in a.bytes_read..(a.bytes_read + k - 1) : x \in a.buf
    IN CHOOSE k \in 0..n : fits(k) /\ (k = n \/ ~fits(k + 1))
AsmRead(a, n) ==
    LET k == AsmReadLen(a, n) IN
    [a EXCEPT !.bytes_read = @ + k,
              !.buf = @ \ (a.bytes_read..(a.bytes_read + k - 1))]
\* the fragments <<offset, len>> an unordered read may return
AsmFragments(a) ==
    {f \in (0..Pow62) \X (1..Pow62) : \A x \in f[1]..(f[1] + f[2] - 1) : x \in a.buf}
AsmReadUnordered(a, f) ==
    [a EXCEPT !.bytes_read = @ + f[2], !.unordered = TRUE,
              !.buf = @ \ (f[1]..(f[1] + f[2] - 1))]
AsmIsFullyRead(a) == a.bytes_read = a.end /\ a.buf = {}
AsmStop(a) == [a EXCEPT !.stopped = TRUE, !.buf = {}]
AsmClear(a) == [a EXCEPT !.buf = {}]

\* -------------------------------------------------------------------- Recv
\* state Recv{size}: size is NoVal for None; ResetRecvd{size, error_code}
RecvNew ==
    [state |-> "Recv", size |-> NoVal, error_code |-> NoCode,
     assembler |-> AssemblerNew, sent_max_stream_data |-> 0]
RecvIsFinished(r) == r.state # "Recv"
RecvIsClosed(r) == r.state = "Closed"
RecvReceivingUnknownSize(r) == r.state = "Recv" /\ r.size = NoVal
\* final_offset(): NoVal for None
RecvFinalOffset(r) == IF r.state \in {"Recv", "ResetRecvd"} THEN r.size ELSE NoVal
\* ingest that does not look at the connection's limit
RecvIngestStreamLimitOnly(r, offset, len, fin, received, max_data, receive_window) ==
    LET end == offset + len
        final == RecvFinalOffset(r)
        new_bytes == SatSub(end, r.assembler.end)
        stream_max_data == AddU64(r.assembler.bytes_read, receive_window)
    IN
    IF end >= Pow62 THEN [res |-> "FLOW_CONTROL_ERROR", val |-> 0, stream |-> r]
    ELSE IF final # NoVal /\ (end > final \/ (fin /\ end # final))
    THEN [res |-> "FINAL_SIZE_ERROR", val |-> 0, stream |-> r]
    ELSE IF end > stream_max_data
    THEN [res |-> "FLOW_CONTROL_ERROR", val |-> 0, stream |-> r]
    ELSE LET r1 == IF fin
                   THEN IF r.assembler.stopped
                        THEN [r EXCEPT !.state = "Closed", !.size = NoVal, !.error_code = NoCode]
                        ELSE IF r.state = "Recv" THEN [r EXCEPT !.size = end] ELSE r
                   ELSE r
         IN [res |-> "Ok", val |-> new_bytes,
             stream |-> [r1 EXCEPT !.assembler = AsmInsert(@, offset, len)]]

\* reset that does not recognise a stream already reset
RecvResetAgain(r, error_code, final_offset) ==
    [fresh |-> TRUE,
     stream |-> [r EXCEPT !.state = "ResetRecvd", !.size = final_offset,
                          !.error_code = error_code, !.assembler = AsmClear(@)]]

\* Recv::ingest of a frame (offset, len, fin)
RecvIngest(r, offset, len, fin, received, max_data, receive_window) ==
    LET end == offset + len
        final == RecvFinalOffset(r)
        new_bytes == SatSub(end, r.assembler.end)
        stream_max_data == AddU64(r.assembler.bytes_read, receive_window)
    IN
    IF end >= Pow62 THEN [res |-> "FLOW_CONTROL_ERROR", val |-> 0, stream |-> r]
    ELSE IF final # NoVal /\ (end > final \/ (fin /\ end # final))
    THEN [res |-> "FINAL_SIZE_ERROR", val |-> 0, stream |-> r]
    ELSE IF end > stream_max_data \/ AddU64(received, new_bytes) > max_data
    THEN [res |-> "FLOW_CONTROL_ERROR", val |-> 0, stream |-> r]
    ELSE LET r1 == IF fin
                   THEN IF r.assembler.stopped
                        THEN [r EXCEPT !.state = "Closed", !.size = NoVal, !.error_code = NoCode]
                        ELSE IF r.state = "Recv" THEN [r EXCEPT !.size = end] ELSE r
                   ELSE r
         IN [res |-> "Ok", val |-> new_bytes,
             stream |-> [r1 EXCEPT !.assembler = AsmInsert(@, offset, len)]]
\* Recv::read_blocked
RecvReadBlocked(r) ==
    IF r.state = "ResetRecvd"
    THEN [res |-> "Reset", val |-> r.error_code,
          stream |-> [r EXCEPT !.state = "Closed", !.size = NoVal, !.error_code = NoCode]]
    ELSE IF r.state = "Closed" THEN [res |-> "UnknownStream", val |-> NoVal, stream |-> r]
    ELSE IF r.size = r.assembler.end /\ AsmIsFullyRead(r.assembler)
    THEN [res |-> "None", val |-> NoVal, stream |-> [r EXCEPT !.state = "Closed", !.size = NoVal]]
    ELSE [res |-> "Blocked", val |-> NoVal, stream |-> r]
\* Recv::read into a buffer of n bytes
RecvRead(r, n) ==
    IF r.assembler.stopped THEN [res |-> "UnknownStream", val |-> NoVal, stream |-> r]
    ELSE IF r.assembler.unordered THEN [res |-> "IllegalOrderedRead", val |-> NoVal, stream |-> r]
    ELSE IF AsmReadLen(r.assembler, n) > 0
    THEN [res |-> "Some", val |-> AsmReadLen(r.assembler, n),
          stream |-> [r EXCEPT !.assembler = AsmRead(@, n)]]
    ELSE RecvReadBlocked(r)
\* Recv::read_unordered returning fragment f, or, with f = <<0, 0>>, nothing
RecvReadUnordered(r, f) ==
    IF r.assembler.stopped THEN [res |-> "UnknownStream", val |-> NoVal, stream |-> r]
    ELSE IF f[2] > 0
    THEN [res |-> "Some", val |-> f[2],
          stream |-> [r EXCEPT !.assembler = AsmReadUnordered(@, f)]]
    ELSE RecvReadBlocked(r)
\* Recv::max_stream_data: <<window to announce, whether to transmit>>
RecvMaxStreamData(r, stream_receive_window) ==
    LET max_stream_data == AddU64(r.assembler.bytes_read, stream_receive_window)
        diff == SubU64(max_stream_data, r.sent_max_stream_data)
    IN <<max_stream_data,
         RecvReceivingUnknownSize(r) /\ diff >= (stream_receive_window \div 8)>>
RecvRecordSentMaxStreamData(r, sent_value) ==
    IF sent_value > r.sent_max_stream_data
    THEN [r EXCEPT !.sent_max_stream_data = sent_value] ELSE r
\* Recv::reset: whether the reset was not redundant, and the stream
RecvReset(r, error_code, final_offset) ==
    IF r.state \in {"ResetRecvd", "Closed"} THEN [fresh |-> FALSE, stream |-> r]
    ELSE [fresh |-> TRUE,
          stream |-> [r EXCEPT !.state = "ResetRecvd", !.size = final_offset,
                               !.error_code = error_code,
                               !.assembler = AsmClear(@)]]

\* ----------------------------------------------------------------- Streams
VARIABLES
    side, send, recv, next, max, max_remote, next_remote, opened,
    next_reported_remote, send_streams, pending, events, connection_blocked,
    max_data, receive_window, local_max_data, sent_max_data, data_sent,
    data_recvd, unacked_data, send_window, stream_receive_window,
    \* the STREAM frames [id, start, end, fin] the caller has sent and that
    \* its loss detection may still acknowledge or declare lost
    inflight,
    \* the last call and what it returned
    last,
    \* the operations whose calls are recorded in last
    observed,
    \* the length at which the events queue is capped
    events_cap,
    \* the length at which the pending queue is capped
    pending_cap

vars ==
    <<side, send, recv, next, max, max_remote, next_remote, opened,
      next_reported_remote, send_streams, pending, events, connection_blocked,
      max_data, receive_window, local_max_data, sent_max_data, data_sent,
      data_recvd, unacked_data, send_window, stream_receive_window,
      inflight, last, observed, events_cap, pending_cap>>

config == <<side, send_window, receive_window, stream_receive_window, observed,
           events_cap, pending_cap>>
counters == <<next, max, max_remote, next_remote, opened, next_reported_remote>>
sendflow == <<max_data, data_sent, unacked_data>>
recvflow == <<local_max_data, sent_max_data, data_recvd>>

Called(op, id, dir, res, val) ==
    [op |-> op, id |-> id, dir |-> dir, res |-> res, val |-> val]
\* results are not observed: last starts here and stays here
Unrecorded == Called("-", NoVal, "-", "-", NoVal)
\* a call of an operation that is not observed
Unobserved == Called("other", NoVal, "-", "-", NoVal)
\* every operation is observed
AllOps == {"all"}
L(op, id, dir, res, val) ==
    IF last = Unrecorded THEN Unrecorded
    ELSE IF observed = AllOps \/ op \in observed THEN Called(op, id, dir, res, val)
    ELSE Unobserved
Ev(type, id, dir, code) == [type |-> type, id |-> id, dir |-> dir, code |-> code]
NoDir == "-"
\* the events queue has room for one more event
CanPush == Len(events) < events_cap

\* the pending queue stays within its cap
HasRoom(q) == Len(q) <= pending_cap

\* TransportParameters; NoParams stands for None
NoParams == [none |-> TRUE]
ParamsOf(streams_bidi, streams_uni, data, bidi_local, bidi_remote, uni) ==
    [initial_max_streams_bidi |-> streams_bidi,
     initial_max_streams_uni |-> streams_uni,
     initial_max_data |-> data,
     initial_max_stream_data_bidi_local |-> bidi_local,
     initial_max_stream_data_bidi_remote |-> bidi_remote,
     initial_max_stream_data_uni |-> uni]

\* Streams::insert, on the send map and on the recv map
InsertSend(snd, params, remote, id) ==
    IF IdDir(id) = "Bi" \/ ~remote
    THEN LET md == IF params = NoParams THEN 0
                   ELSE IF IdDir(id) = "Uni" THEN params.initial_max_stream_data_uni
                   ELSE IF remote THEN params.initial_max_stream_data_bidi_local
                   ELSE params.initial_max_stream_data_bidi_remote
         IN Put(snd, id, SendNew(md))
    ELSE snd
InsertRecv(rcv, remote, id) ==
    IF IdDir(id) = "Bi" \/ remote THEN Put(rcv, id, RecvNew) ELSE rcv

\* Streams::new
New(s, max_remote_uni, max_remote_bi, sw, rw, srw) ==
    LET mr == [d \in Dirs |-> IF d = "Bi" THEN max_remote_bi ELSE max_remote_uni]
        ids == {NewId(Other(s), d, i) : d \in Dirs, i \in 0..MaxIndex}
        remote == {id \in ids : Index(id) < mr[IdDir(id)]}
    IN
    /\ side = s
    /\ send = [id \in {x \in remote : IdDir(x) = "Bi"} |-> SendNew(0)]
    /\ recv = [id \in remote |-> RecvNew]
    /\ next = [d \in Dirs |-> 0]
    /\ max = [d \in Dirs |-> 0]
    /\ max_remote = mr
    /\ next_remote = [d \in Dirs |-> 0]
    /\ opened = [d \in Dirs |-> FALSE]
    /\ next_reported_remote = [d \in Dirs |-> 0]
    /\ send_streams = 0
    /\ pending = <<>>
    /\ events = <<>>
    /\ connection_blocked = <<>>
    /\ max_data = 0
    /\ receive_window = rw
    /\ local_max_data = rw
    /\ sent_max_data = rw
    /\ data_sent = 0
    /\ data_recvd = 0
    /\ unacked_data = 0
    /\ send_window = sw
    /\ stream_receive_window = srw
    /\ inflight = {}

\* open that hands out a stream whatever the peer's limit
OpenUnlimited(params, dir) ==
    LET id == NewId(side, dir, next[dir]) IN
    /\ send_streams < MaxSendStreams
    /\ next[dir] <= MaxIndex
    /\ id \notin DOMAIN send
    /\ IdDir(id) = "Bi" => id \notin DOMAIN recv
    /\ next' = [next EXCEPT ![dir] = @ + 1]
    /\ send' = InsertSend(send, params, FALSE, id)
    /\ recv' = InsertRecv(recv, FALSE, id)
    /\ send_streams' = AddU64(send_streams, 1)
    /\ last' = L("open", id, dir, "Some", id)
    /\ UNCHANGED <<config, max, max_remote, next_remote, opened,
                   next_reported_remote, sendflow, recvflow, pending, events,
                   connection_blocked, inflight>>

\* Streams::open
Open(params, dir) ==
    IF next[dir] >= max[dir]
    THEN /\ last' = L("open", NoVal, dir, "None", NoVal)
         /\ UNCHANGED <<config, counters, sendflow, recvflow, send, recv, send_streams,
                        pending, events, connection_blocked, inflight>>
    ELSE LET id == NewId(side, dir, next[dir]) IN
         /\ send_streams < MaxSendStreams
         /\ id \notin DOMAIN send
         /\ IdDir(id) = "Bi" => id \notin DOMAIN recv
         /\ next' = [next EXCEPT ![dir] = @ + 1]
         /\ send' = InsertSend(send, params, FALSE, id)
         /\ recv' = InsertRecv(recv, FALSE, id)
         /\ send_streams' = AddU64(send_streams, 1)
         /\ last' = L("open", id, dir, "Some", id)
         /\ UNCHANGED <<config, max, max_remote, next_remote, opened,
                        next_reported_remote, sendflow, recvflow, pending, events,
                        connection_blocked, inflight>>

\* received_max_data that takes the peer's value as it comes
ReceivedMaxDataAssign(n) == n

\* Streams::received_max_data
ReceivedMaxDataValue(n) == Max(max_data, n)

\* Streams::set_params
SetParams(params) ==
    /\ max' = [d \in Dirs |-> IF d = "Bi" THEN params.initial_max_streams_bidi
                              ELSE params.initial_max_streams_uni]
    /\ max_data' = ReceivedMaxDataValue(params.initial_max_data)
    /\ \A i \in 0..(max_remote["Bi"] - 1) : NewId(Other(side), "Bi", i) \in DOMAIN send
    /\ send' = [id \in DOMAIN send |->
                  IF Initiator(id) # side /\ IdDir(id) = "Bi" /\ Index(id) < max_remote["Bi"]
                  THEN [send[id] EXCEPT !.max_data = params.initial_max_stream_data_bidi_local]
                  ELSE send[id]]
    /\ last' = L("set_params", NoVal, NoDir, "Ok", NoVal)
    /\ UNCHANGED <<config, next, max_remote, next_remote, opened, next_reported_remote,
                   data_sent, unacked_data, recvflow, recv, send_streams, pending,
                   events, connection_blocked, inflight>>

\* Streams::alloc_remote_stream
AllocRemoteStream(params, dir) ==
    LET id == NewId(Other(side), dir, max_remote[dir]) IN
    /\ max_remote[dir] <= MaxIndex
    /\ max_remote' = [max_remote EXCEPT ![dir] = @ + 1]
    /\ id \notin DOMAIN send /\ id \notin DOMAIN recv
    /\ send' = InsertSend(send, params, TRUE, id)
    /\ recv' = InsertRecv(recv, TRUE, id)
    /\ last' = L("alloc_remote_stream", id, dir, "Ok", NoVal)
    /\ UNCHANGED <<config, next, max, next_remote, opened, next_reported_remote,
                   sendflow, recvflow, send_streams, pending, events,
                   connection_blocked, inflight>>

\* accept that does not count the stream in send_streams
AcceptUncounted(dir) ==
    IF next_remote[dir] = next_reported_remote[dir]
    THEN /\ last' = L("accept", NoVal, dir, "None", NoVal)
         /\ UNCHANGED <<config, counters, sendflow, recvflow, send, recv, send_streams,
                        pending, events, connection_blocked, inflight>>
    ELSE LET x == next_reported_remote[dir] IN
         /\ next_reported_remote' = [next_reported_remote EXCEPT ![dir] = x + 1]
         /\ last' = L("accept", NewId(Other(side), dir, x), dir, "Some",
                      NewId(Other(side), dir, x))
         /\ UNCHANGED <<config, next, max, max_remote, next_remote, opened, sendflow,
                        recvflow, send, recv, send_streams, pending, events,
                        connection_blocked, inflight>>

\* Streams::accept
Accept(dir) ==
    IF next_remote[dir] = next_reported_remote[dir]
    THEN /\ last' = L("accept", NoVal, dir, "None", NoVal)
         /\ UNCHANGED <<config, counters, sendflow, recvflow, send, recv, send_streams,
                        pending, events, connection_blocked, inflight>>
    ELSE LET x == next_reported_remote[dir] IN
         /\ next_reported_remote' = [next_reported_remote EXCEPT ![dir] = x + 1]
         /\ send_streams' = IF dir = "Bi" THEN AddU64(send_streams, 1) ELSE send_streams
         /\ last' = L("accept", NewId(Other(side), dir, x), dir, "Some",
                      NewId(Other(side), dir, x))
         /\ UNCHANGED <<config, next, max, max_remote, next_remote, opened, sendflow,
                        recvflow, send, recv, pending, events, connection_blocked,
                        inflight>>

\* the locally initiated ids zero_rtt_rejected and retransmit_all_for_0rtt visit
LocalOpened(s) == {NewId(s, d, i) : d \in Dirs, i \in 0..MaxIndex} \cap
                  {id \in AllIds : Index(id) < next[IdDir(id)]}

\* zero_rtt_rejected that keeps the count of bytes sent
ZeroRttRejectedKeepsDataSent ==
    /\ \A id \in LocalOpened(side) :
          id \in DOMAIN send /\ (IdDir(id) = "Bi" => id \in DOMAIN recv)
    /\ send' = [id \in (DOMAIN send) \ LocalOpened(side) |-> send[id]]
    /\ recv' = [id \in (DOMAIN recv) \ LocalOpened(side) |-> recv[id]]
    /\ next' = [d \in Dirs |-> 0]
    /\ pending' = <<>>
    /\ connection_blocked' = <<>>
    /\ inflight' = {}
    /\ last' = L("zero_rtt_rejected", NoVal, NoDir, "Ok", NoVal)
    /\ UNCHANGED <<config, max, max_remote, next_remote, opened, next_reported_remote,
                   max_data, data_sent, unacked_data, recvflow, send_streams, events>>

\* Streams::zero_rtt_rejected; the caller discards its sent 0-RTT packets
ZeroRttRejected ==
    /\ \A id \in LocalOpened(side) :
          id \in DOMAIN send /\ (IdDir(id) = "Bi" => id \in DOMAIN recv)
    /\ send' = [id \in (DOMAIN send) \ LocalOpened(side) |-> send[id]]
    /\ recv' = [id \in (DOMAIN recv) \ LocalOpened(side) |-> recv[id]]
    /\ next' = [d \in Dirs |-> 0]
    /\ pending' = <<>>
    /\ data_sent' = 0
    /\ connection_blocked' = <<>>
    /\ inflight' = {}
    /\ last' = L("zero_rtt_rejected", NoVal, NoDir, "Ok", NoVal)
    /\ UNCHANGED <<config, max, max_remote, next_remote, opened, next_reported_remote,
                   max_data, unacked_data, recvflow, send_streams, events>>

\* on_stream_frame that announces nothing on a stream this side opened
OnStreamFrameRemoteOnly(notify_readable, stream, ev) ==
    LET readable == IF notify_readable
                    THEN Append(ev, Ev("Readable", stream, NoDir, NoCode)) ELSE ev
        dir == IdDir(stream)
    IN
    IF Initiator(stream) = side
    THEN [next_remote |-> next_remote, opened |-> opened, events |-> ev]
    ELSE IF Index(stream) >= next_remote[dir]
    THEN [next_remote |-> [next_remote EXCEPT ![dir] = Index(stream) + 1],
          opened |-> [opened EXCEPT ![dir] = TRUE], events |-> ev]
    ELSE [next_remote |-> next_remote, opened |-> opened, events |-> readable]

\* Streams::on_stream_frame, on next_remote, opened and the events queue ev
OnStreamFrame(notify_readable, stream, ev) ==
    LET readable == IF notify_readable
                    THEN Append(ev, Ev("Readable", stream, NoDir, NoCode)) ELSE ev
        dir == IdDir(stream)
    IN
    IF Initiator(stream) = side
    THEN [next_remote |-> next_remote, opened |-> opened, events |-> readable]
    ELSE IF Index(stream) >= next_remote[dir]
    THEN [next_remote |-> [next_remote EXCEPT ![dir] = Index(stream) + 1],
          opened |-> [opened EXCEPT ![dir] = TRUE], events |-> ev]
    ELSE [next_remote |-> next_remote, opened |-> opened, events |-> readable]

\* Streams::flow_blocked
FlowBlocked == data_sent >= max_data \/ unacked_data >= send_window

\* Streams::write of a slice of n bytes
Write(id, n) ==
    LET limit == Min(SubU64(max_data, data_sent), SubU64(send_window, unacked_data)) IN
    IF id \notin DOMAIN send
    THEN /\ last' = L("write", id, NoDir, "UnknownStream", NoVal)
         /\ UNCHANGED <<config, counters, sendflow, recvflow, send, recv, send_streams,
                        pending, events, connection_blocked, inflight>>
    ELSE IF limit = 0
    THEN /\ IF ~send[id].connection_blocked
            THEN /\ send' = [send EXCEPT ![id].connection_blocked = TRUE]
                 /\ connection_blocked' = Append(connection_blocked, id)
            ELSE UNCHANGED <<send, connection_blocked>>
         /\ last' = L("write", id, NoDir, "Blocked", NoVal)
         /\ UNCHANGED <<config, counters, sendflow, recvflow, recv, send_streams,
                        pending, events, inflight>>
    ELSE LET was_pending == SendIsPending(send[id])
             w == SendWrite(send[id], Min(n, limit))
         IN
         IF w.res # "Ok"
         THEN /\ last' = L("write", id, NoDir, w.res, w.val)
              /\ UNCHANGED <<config, counters, sendflow, recvflow, send, recv,
                             send_streams, pending, events, connection_blocked, inflight>>
         ELSE /\ SendOffset(w.stream) <= MaxOffset
              /\ send' = [send EXCEPT ![id] = w.stream]
              /\ data_sent' = AddU64(data_sent, w.val)
              /\ unacked_data' = AddU64(unacked_data, w.val)
              /\ pending' = IF ~was_pending THEN Append(pending, id) ELSE pending
              /\ HasRoom(pending')
              /\ last' = L("write", id, NoDir, "Ok", w.val)
              /\ UNCHANGED <<config, counters, max_data, recvflow, recv, send_streams,
                             events, connection_blocked, inflight>>

\* Streams::finish
Finish(id) ==
    IF id \notin DOMAIN send
    THEN /\ last' = L("finish", id, NoDir, "UnknownStream", NoVal)
         /\ UNCHANGED <<config, counters, sendflow, recvflow, send, recv, send_streams,
                        pending, events, connection_blocked, inflight>>
    ELSE LET was_pending == SendIsPending(send[id])
             f == SendFinish(send[id])
         IN
         /\ send' = [send EXCEPT ![id] = f.stream]
         /\ pending' = IF f.res = "Ok" /\ ~was_pending THEN Append(pending, id) ELSE pending
         /\ HasRoom(pending')
         /\ last' = L("finish", id, NoDir, f.res, f.val)
         /\ UNCHANGED <<config, counters, sendflow, recvflow, recv, send_streams,
                        events, connection_blocked, inflight>>

\* reset that leaves the send window as it is
ResetNoRefund(id) ==
    IF id \notin DOMAIN send \/ (id \in DOMAIN send /\ SendIsReset(send[id]))
    THEN /\ last' = L("reset", id, NoDir, "UnknownStream", NoVal)
         /\ UNCHANGED <<config, counters, sendflow, recvflow, send, recv, send_streams,
                        pending, events, connection_blocked, inflight>>
    ELSE /\ send' = [send EXCEPT ![id] = SendReset(@)]
         /\ last' = L("reset", id, NoDir, "Ok", NoVal)
         /\ UNCHANGED <<config, counters, sendflow, recvflow, recv,
                        send_streams, pending, events, connection_blocked, inflight>>

\* Streams::reset
Reset(id) ==
    IF id \notin DOMAIN send \/ (id \in DOMAIN send /\ SendIsReset(send[id]))
    THEN /\ last' = L("reset", id, NoDir, "UnknownStream", NoVal)
         /\ UNCHANGED <<config, counters, sendflow, recvflow, send, recv, send_streams,
                        pending, events, connection_blocked, inflight>>
    ELSE /\ unacked_data' = SubU64(unacked_data, SBUnacked(send[id].pending))
         /\ send' = [send EXCEPT ![id] = SendReset(@)]
         /\ last' = L("reset", id, NoDir, "Ok", NoVal)
         /\ UNCHANGED <<config, counters, max_data, data_sent, recvflow, recv,
                        send_streams, pending, events, connection_blocked, inflight>>

\* reset_acked that forgets the stream whatever its state
ResetAckedAnyState(id) ==
    /\ IF id \in DOMAIN send
       THEN /\ send_streams' = SubU64(send_streams, 1)
            /\ send' = Drop(send, id)
       ELSE UNCHANGED <<send, send_streams>>
    /\ last' = L("reset_acked", id, NoDir, "Ok", NoVal)
    /\ UNCHANGED <<config, counters, sendflow, recvflow, recv, pending, events,
                   connection_blocked, inflight>>

\* Streams::reset_acked
ResetAcked(id) ==
    /\ IF id \in DOMAIN send /\ send[id].state = "ResetSent"
       THEN /\ send_streams' = SubU64(send_streams, 1)
            /\ send' = Drop(send, id)
       ELSE UNCHANGED <<send, send_streams>>
    /\ last' = L("reset_acked", id, NoDir, "Ok", NoVal)
    /\ UNCHANGED <<config, counters, sendflow, recvflow, recv, pending, events,
                   connection_blocked, inflight>>

\* Streams::received_stop_sending
ReceivedStopSending(id, error_code) ==
    IF id \notin DOMAIN send
    THEN /\ last' = L("received_stop_sending", id, NoDir, "Ok", NoVal)
         /\ UNCHANGED <<config, counters, sendflow, recvflow, send, recv, send_streams,
                        pending, events, connection_blocked, inflight>>
    ELSE LET o == OnStreamFrame(FALSE, id,
                                Append(events, Ev("Stopped", id, NoDir, error_code)))
         IN
         /\ CanPush
         /\ send' = [send EXCEPT ![id] = SendStop(@, error_code)]
         /\ next_remote' = o.next_remote
         /\ opened' = o.opened
         /\ events' = o.events
         /\ last' = L("received_stop_sending", id, NoDir, "Ok", error_code)
         /\ UNCHANGED <<config, next, max, max_remote, next_reported_remote, sendflow,
                        recvflow, recv, send_streams, pending, connection_blocked,
                        inflight>>

\* frame::Stream::SIZE_BOUND, scaled: every STREAM frame header takes this much
StreamSizeBound == 1

\* the loop of write_stream_frames with FIN on every frame that ends at the
\* write offset, whatever the state of the stream
RECURSIVE WriteStreamFramesLoopFinEarly(_, _, _, _, _)
WriteStreamFramesLoopFinEarly(pq, snd, used, frames, max_buf_size) ==
    IF ~(used + StreamSizeBound < max_buf_size) \/ pq = <<>>
    THEN [pending |-> pq, send |-> snd, frames |-> frames]
    ELSE LET max_data_len == max_buf_size - (used + StreamSizeBound)
             id == Head(pq)
         IN
         IF id \notin DOMAIN snd \/ (id \in DOMAIN snd /\ SendIsReset(snd[id]))
         THEN WriteStreamFramesLoopFinEarly(Tail(pq), snd, used, frames, max_buf_size)
         ELSE LET pt == SBPollTransmit(snd[id].pending, max_data_len)
                  fin == pt.range[2] = pt.buf.offset
                  stream == [snd[id] EXCEPT !.pending = pt.buf,
                                            !.fin_pending = IF fin THEN FALSE ELSE @]
                  meta == [id |-> id, start |-> pt.range[1], end |-> pt.range[2],
                           fin |-> fin]
              IN WriteStreamFramesLoopFinEarly(
                     IF SendIsPending(stream) THEN Append(Tail(pq), id) ELSE Tail(pq),
                     [snd EXCEPT ![id] = stream],
                     used + StreamSizeBound + (meta.end - meta.start),
                     Append(frames, meta), max_buf_size)

\* the loop of Streams::write_stream_frames: pq the pending queue, snd the
\* send map, used the bytes already in buf, frames the metas emitted so far
RECURSIVE WriteStreamFramesLoop(_, _, _, _, _)
WriteStreamFramesLoop(pq, snd, used, frames, max_buf_size) ==
    IF ~(used + StreamSizeBound < max_buf_size) \/ pq = <<>>
    THEN [pending |-> pq, send |-> snd, frames |-> frames]
    ELSE LET max_data_len == max_buf_size - (used + StreamSizeBound)
             id == Head(pq)
         IN
         IF id \notin DOMAIN snd \/ (id \in DOMAIN snd /\ SendIsReset(snd[id]))
         THEN WriteStreamFramesLoop(Tail(pq), snd, used, frames, max_buf_size)
         ELSE LET pt == SBPollTransmit(snd[id].pending, max_data_len)
                  fin == pt.range[2] = pt.buf.offset /\ snd[id].state = "DataSent"
                  stream == [snd[id] EXCEPT !.pending = pt.buf,
                                            !.fin_pending = IF fin THEN FALSE ELSE @]
                  meta == [id |-> id, start |-> pt.range[1], end |-> pt.range[2],
                           fin |-> fin]
              IN WriteStreamFramesLoop(
                     IF SendIsPending(stream) THEN Append(Tail(pq), id) ELSE Tail(pq),
                     [snd EXCEPT ![id] = stream],
                     used + StreamSizeBound + (meta.end - meta.start),
                     Append(frames, meta), max_buf_size)

\* Streams::write_stream_frames into an empty buf; the caller records the
\* emitted frames as sent
WriteStreamFrames(max_buf_size) ==
    LET w == WriteStreamFramesLoop(pending, send, 0, <<>>, max_buf_size) IN
    /\ pending' = w.pending
    /\ send' = w.send
    /\ inflight' = inflight \cup Range(w.frames)
    /\ Cardinality(inflight') <= MaxInflight
    /\ last' = L("write_stream_frames", NoVal, NoDir, "Ok", Len(w.frames))
    /\ UNCHANGED <<config, counters, sendflow, recvflow, recv, send_streams, events,
                   connection_blocked>>

\* received_ack_of that leaves unacked_data as it is
ReceivedAckOfNoDebit(frame) ==
    /\ frame \in inflight
    /\ inflight' = inflight \ {frame}
    /\ last' = L("received_ack_of", frame.id, NoDir, "Ok", NoVal)
    /\ IF frame.id \notin DOMAIN send \/ (frame.id \in DOMAIN send /\ SendIsReset(send[frame.id]))
       THEN UNCHANGED <<send, unacked_data, send_streams, events>>
       ELSE LET stream == SendAck(send[frame.id], frame.start, frame.end, frame.fin) IN
            /\ unacked_data' = unacked_data
            /\ IF stream.state # "DataRecvd"
               THEN /\ send' = [send EXCEPT ![frame.id] = stream]
                    /\ UNCHANGED <<send_streams, events>>
               ELSE /\ CanPush
                    /\ send_streams' = SubU64(send_streams, 1)
                    /\ send' = Drop(send, frame.id)
                    /\ events' = Append(events, Ev("Finished", frame.id, NoDir, NoCode))
    /\ UNCHANGED <<config, counters, max_data, data_sent, recvflow, recv, pending,
                   connection_blocked>>

\* Streams::received_ack_of, for a frame the caller had recorded as sent
ReceivedAckOf(frame) ==
    /\ frame \in inflight
    /\ inflight' = inflight \ {frame}
    /\ last' = L("received_ack_of", frame.id, NoDir, "Ok", NoVal)
    /\ IF frame.id \notin DOMAIN send \/ (frame.id \in DOMAIN send /\ SendIsReset(send[frame.id]))
       THEN UNCHANGED <<send, unacked_data, send_streams, events>>
       ELSE LET stream == SendAck(send[frame.id], frame.start, frame.end, frame.fin) IN
            /\ unacked_data' = SubU64(unacked_data, frame.end - frame.start)
            /\ IF stream.state # "DataRecvd"
               THEN /\ send' = [send EXCEPT ![frame.id] = stream]
                    /\ UNCHANGED <<send_streams, events>>
               ELSE /\ CanPush
                    /\ send_streams' = SubU64(send_streams, 1)
                    /\ send' = Drop(send, frame.id)
                    /\ events' = Append(events, Ev("Finished", frame.id, NoDir, NoCode))
    /\ UNCHANGED <<config, counters, max_data, data_sent, recvflow, recv, pending,
                   connection_blocked>>

\* retransmit that does not schedule the stream
RetransmitUnscheduled(frame) ==
    /\ frame \in inflight
    /\ inflight' = inflight \ {frame}
    /\ last' = L("retransmit", frame.id, NoDir, "Ok", NoVal)
    /\ IF frame.id \notin DOMAIN send
       THEN UNCHANGED <<send, pending>>
       ELSE /\ pending' = pending
            /\ HasRoom(pending')
            /\ send' = [send EXCEPT
                          ![frame.id].fin_pending = @ \/ frame.fin,
                          ![frame.id].pending = SBRetransmit(@, frame.start, frame.end)]
    /\ UNCHANGED <<config, counters, sendflow, recvflow, recv, send_streams, events,
                   connection_blocked>>

\* Streams::retransmit, for a frame the caller had recorded as sent
Retransmit(frame) ==
    /\ frame \in inflight
    /\ inflight' = inflight \ {frame}
    /\ last' = L("retransmit", frame.id, NoDir, "Ok", NoVal)
    /\ IF frame.id \notin DOMAIN send
       THEN UNCHANGED <<send, pending>>
       ELSE /\ pending' = IF ~SendIsPending(send[frame.id])
                          THEN Append(pending, frame.id) ELSE pending
            /\ HasRoom(pending')
            /\ send' = [send EXCEPT
                          ![frame.id].fin_pending = @ \/ frame.fin,
                          ![frame.id].pending = SBRetransmit(@, frame.start, frame.end)]
    /\ UNCHANGED <<config, counters, sendflow, recvflow, recv, send_streams, events,
                   connection_blocked>>

\* Streams::retransmit_all_for_0rtt; nothing sent in 0-RTT has been
\* acknowledged, and the caller discards its sent 0-RTT packets
RetransmitAllFor0rtt ==
    LET ids == LocalOpened("Client")
        touched == {id \in ids : ~(SBIsFullyAcked(send[id].pending) /\ ~send[id].fin_pending)}
        RECURSIVE Queue(_, _, _)
        Queue(pq, ds, i) ==
            IF i > MaxIndex THEN pq
            ELSE LET id == NewId("Client", ds, i) IN
                 Queue(IF id \in touched /\ ~SendIsPending(send[id])
                       THEN Append(pq, id) ELSE pq, ds, i + 1)
    IN
    /\ \A id \in ids : id \in DOMAIN send /\ send[id].pending.acks = {}
    /\ pending' = Queue(Queue(pending, "Bi", 0), "Uni", 0)
    /\ HasRoom(pending')
    /\ send' = [id \in DOMAIN send |->
                  IF id \in touched
                  THEN [send[id] EXCEPT !.pending = SBRetransmitAllFor0rtt(@)]
                  ELSE send[id]]
    /\ inflight' = {}
    /\ last' = L("retransmit_all_for_0rtt", NoVal, NoDir, "Ok", NoVal)
    /\ UNCHANGED <<config, counters, sendflow, recvflow, recv, send_streams, events,
                   connection_blocked>>

\* MAX_STREAM_COUNT, scaled: the largest representable stream count
MaxStreamCount == MaxIndex + 1

\* Streams::received_max_streams
ReceivedMaxStreams(dir, count) ==
    IF count > MaxStreamCount
    THEN /\ last' = L("received_max_streams", NoVal, dir, "FRAME_ENCODING_ERROR", NoVal)
         /\ UNCHANGED <<config, counters, sendflow, recvflow, send, recv, send_streams,
                        pending, events, connection_blocked, inflight>>
    ELSE /\ IF count > max[dir]
            THEN /\ CanPush
                 /\ max' = [max EXCEPT ![dir] = count]
                 /\ events' = Append(events, Ev("Available", NoVal, dir, NoCode))
            ELSE UNCHANGED <<max, events>>
         /\ last' = L("received_max_streams", NoVal, dir, "Ok", NoVal)
         /\ UNCHANGED <<config, next, max_remote, next_remote, opened,
                        next_reported_remote, sendflow, recvflow, send, recv,
                        send_streams, pending, connection_blocked, inflight>>

\* Streams::received_max_data
ReceivedMaxData(n) ==
    /\ max_data' = ReceivedMaxDataValue(n)
    /\ last' = L("received_max_data", NoVal, NoDir, "Ok", n)
    /\ UNCHANGED <<config, counters, data_sent, unacked_data, recvflow, send, recv,
                   send_streams, pending, events, connection_blocked, inflight>>

\* Streams::is_local_unopened
IsLocalUnopened(id) == Index(id) >= next[IdDir(id)]

\* Streams::received_max_stream_data
ReceivedMaxStreamData(id, offset) ==
    IF Initiator(id) # side /\ IdDir(id) = "Uni"
    THEN /\ last' = L("received_max_stream_data", id, NoDir, "STREAM_STATE_ERROR", NoVal)
         /\ UNCHANGED <<config, counters, sendflow, recvflow, send, recv, send_streams,
                        pending, events, connection_blocked, inflight>>
    ELSE IF id \notin DOMAIN send /\ Initiator(id) = side /\ IsLocalUnopened(id)
    THEN /\ last' = L("received_max_stream_data", id, NoDir, "STREAM_STATE_ERROR", NoVal)
         /\ UNCHANGED <<config, counters, sendflow, recvflow, send, recv, send_streams,
                        pending, events, connection_blocked, inflight>>
    ELSE LET inc == IF id \in DOMAIN send
                    THEN SendIncreaseMaxData(send[id], offset)
                    ELSE [unblocked |-> FALSE]
             ev == IF inc.unblocked
                   THEN Append(events, Ev("Writable", id, NoDir, NoCode)) ELSE events
             o == OnStreamFrame(FALSE, id, ev)
         IN
         /\ inc.unblocked => CanPush
         /\ send' = IF id \in DOMAIN send THEN [send EXCEPT ![id] = inc.stream] ELSE send
         /\ next_remote' = o.next_remote
         /\ opened' = o.opened
         /\ events' = o.events
         /\ last' = L("received_max_stream_data", id, NoDir, "Ok", offset)
         /\ UNCHANGED <<config, next, max, max_remote, next_reported_remote, sendflow,
                        recvflow, recv, send_streams, pending, connection_blocked,
                        inflight>>

\* the loop of Streams::poll_unblocked over the connection_blocked list cb
RECURSIVE PollUnblockedLoop(_, _)
PollUnblockedLoop(cb, snd) ==
    IF cb = <<>> THEN [id |-> NoVal, connection_blocked |-> cb, send |-> snd]
    ELSE LET id == cb[Len(cb)]
             rest == SubSeq(cb, 1, Len(cb) - 1)
         IN
         IF id \notin DOMAIN snd THEN PollUnblockedLoop(rest, snd)
         ELSE IF SendIsWritable(snd[id])
         THEN [id |-> id, connection_blocked |-> rest,
               send |-> [snd EXCEPT ![id].connection_blocked = FALSE]]
         ELSE PollUnblockedLoop(rest, [snd EXCEPT ![id].connection_blocked = FALSE])

\* Streams::poll_unblocked
PollUnblocked ==
    IF FlowBlocked THEN [id |-> NoVal, connection_blocked |-> connection_blocked, send |-> send]
    ELSE PollUnblockedLoop(connection_blocked, send)

\* poll that returns a queued event before it looks at the opened flags
PollEventsFirst ==
    IF events # <<>>
    THEN /\ events' = Tail(events)
         /\ last' = L("poll", Head(events).id, Head(events).dir,
                      Head(events).type, Head(events).code)
         /\ UNCHANGED <<config, counters, sendflow, recvflow, send, recv, send_streams,
                        pending, connection_blocked, inflight>>
    ELSE IF \E d \in Dirs : opened[d]
    THEN LET dir == IF opened["Bi"] THEN "Bi" ELSE "Uni" IN
         /\ opened' = [opened EXCEPT ![dir] = FALSE]
         /\ last' = L("poll", NoVal, dir, "Opened", NoVal)
         /\ UNCHANGED <<config, next, max, max_remote, next_remote,
                        next_reported_remote, sendflow, recvflow, send, recv,
                        send_streams, pending, events, connection_blocked, inflight>>
    ELSE LET u == PollUnblocked IN
         /\ send' = u.send
         /\ connection_blocked' = u.connection_blocked
         /\ last' = IF u.id # NoVal THEN L("poll", u.id, NoDir, "Writable", NoVal)
                    ELSE L("poll", NoVal, NoDir, "None", NoVal)
         /\ UNCHANGED <<config, counters, sendflow, recvflow, recv, send_streams,
                        pending, events, inflight>>

\* Streams::poll
Poll ==
    IF \E d \in Dirs : opened[d]
    THEN LET dir == IF opened["Bi"] THEN "Bi" ELSE "Uni" IN
         /\ opened' = [opened EXCEPT ![dir] = FALSE]
         /\ last' = L("poll", NoVal, dir, "Opened", NoVal)
         /\ UNCHANGED <<config, next, max, max_remote, next_remote,
                        next_reported_remote, sendflow, recvflow, send, recv,
                        send_streams, pending, events, connection_blocked, inflight>>
    ELSE LET u == PollUnblocked IN
         IF u.id # NoVal
         THEN /\ send' = u.send
              /\ connection_blocked' = u.connection_blocked
              /\ last' = L("poll", u.id, NoDir, "Writable", NoVal)
              /\ UNCHANGED <<config, counters, sendflow, recvflow, recv, send_streams,
                             pending, events, inflight>>
         ELSE /\ send' = u.send
              /\ connection_blocked' = u.connection_blocked
              /\ IF events = <<>>
                 THEN /\ last' = L("poll", NoVal, NoDir, "None", NoVal)
                      /\ UNCHANGED events
                 ELSE /\ events' = Tail(events)
                      /\ last' = L("poll", Head(events).id, Head(events).dir,
                                   Head(events).type, Head(events).code)
              /\ UNCHANGED <<config, counters, sendflow, recvflow, recv, send_streams,
                             pending, inflight>>

\* validate_receive_id that takes every Bi stream of this side as opened
ValidateReceiveIdAnyLocalBi(id) ==
    IF side = Initiator(id)
    THEN IF IdDir(id) = "Uni" THEN "STREAM_STATE_ERROR" ELSE "Ok"
    ELSE IF Index(id) >= max_remote[IdDir(id)] THEN "STREAM_LIMIT_ERROR" ELSE "Ok"

\* Streams::validate_receive_id
ValidateReceiveId(id) ==
    IF side = Initiator(id)
    THEN IF IdDir(id) = "Uni" THEN "STREAM_STATE_ERROR"
         ELSE IF Index(id) >= next["Bi"] THEN "STREAM_STATE_ERROR"
         ELSE "Ok"
    ELSE IF Index(id) >= max_remote[IdDir(id)] THEN "STREAM_LIMIT_ERROR" ELSE "Ok"

\* add_read_credits that takes the credits away from the peer
AddReadCreditsDebit(credits) ==
    LET lmd == SatSub(local_max_data, credits) IN
    [local_max_data |-> lmd,
     transmit |-> IF lmd > VarIntMax THEN FALSE
                  ELSE SubU64(lmd, sent_max_data) >= (receive_window \div 8)]

\* add_read_credits that issues no credit
AddReadCreditsNone(credits) ==
    [local_max_data |-> local_max_data,
     transmit |-> IF local_max_data > VarIntMax THEN FALSE
                  ELSE SubU64(local_max_data, sent_max_data) >= (receive_window \div 8)]

\* Streams::add_read_credits: the new local_max_data and the ShouldTransmit
AddReadCredits(credits) ==
    LET lmd == SatAdd(local_max_data, credits) IN
    [local_max_data |-> lmd,
     transmit |-> IF lmd > VarIntMax THEN FALSE
                  ELSE SubU64(lmd, sent_max_data) >= (receive_window \div 8)]

\* Streams::record_sent_max_data
RecordSentMaxData(sent_value) ==
    IF sent_value > sent_max_data THEN sent_value ELSE sent_max_data

\* Streams::received: a STREAM frame (id, offset, len bytes of data, fin)
Received(id, offset, len, fin) ==
    LET v == ValidateReceiveId(id) IN
    IF v # "Ok"
    THEN /\ last' = L("received", id, NoDir, v, NoVal)
         /\ UNCHANGED <<config, counters, sendflow, recvflow, send, recv, send_streams,
                        pending, events, connection_blocked, inflight>>
    ELSE IF id \notin DOMAIN recv \/ (id \in DOMAIN recv /\ RecvIsFinished(recv[id]))
    THEN /\ last' = L("received", id, NoDir, "Ok", 0)
         /\ UNCHANGED <<config, counters, sendflow, recvflow, send, recv, send_streams,
                        pending, events, connection_blocked, inflight>>
    ELSE LET ing == RecvIngest(recv[id], offset, len, fin, data_recvd, local_max_data,
                               stream_receive_window)
         IN
         IF ing.res # "Ok"
         THEN /\ last' = L("received", id, NoDir, ing.res, NoVal)
              /\ UNCHANGED <<config, counters, sendflow, recvflow, send, recv,
                             send_streams, pending, events, connection_blocked, inflight>>
         ELSE IF ~ing.stream.assembler.stopped
         THEN LET o == OnStreamFrame(TRUE, id, events) IN
              /\ Len(o.events) <= events_cap
              /\ data_recvd' = AddU64(data_recvd, ing.val)
              /\ recv' = [recv EXCEPT ![id] = ing.stream]
              /\ next_remote' = o.next_remote
              /\ opened' = o.opened
              /\ events' = o.events
              /\ last' = L("received", id, NoDir, "Ok", 0)
              /\ UNCHANGED <<config, next, max, max_remote, next_reported_remote,
                             sendflow, local_max_data, sent_max_data, send,
                             send_streams, pending, connection_blocked, inflight>>
         ELSE LET c == AddReadCredits(ing.val) IN
              /\ data_recvd' = AddU64(data_recvd, ing.val)
              /\ recv' = IF RecvIsClosed(ing.stream) THEN Drop(recv, id)
                         ELSE [recv EXCEPT ![id] = ing.stream]
              /\ local_max_data' = c.local_max_data
              /\ last' = L("received", id, NoDir, "Ok", IF c.transmit THEN 1 ELSE 0)
              /\ UNCHANGED <<config, counters, sendflow, sent_max_data, send,
                             send_streams, pending, events, connection_blocked, inflight>>

\* Streams::received_reset: a RESET_STREAM frame
ReceivedReset(id, error_code, final_offset) ==
    LET v == ValidateReceiveId(id) IN
    IF v # "Ok"
    THEN /\ last' = L("received_reset", id, NoDir, v, NoVal)
         /\ UNCHANGED <<config, counters, sendflow, recvflow, send, recv, send_streams,
                        pending, events, connection_blocked, inflight>>
    ELSE IF id \notin DOMAIN recv
    THEN /\ last' = L("received_reset", id, NoDir, "Ok", 0)
         /\ UNCHANGED <<config, counters, sendflow, recvflow, send, recv, send_streams,
                        pending, events, connection_blocked, inflight>>
    ELSE LET rs == recv[id]
             end == rs.assembler.end
             final == RecvFinalOffset(rs)
         IN
         IF (final # NoVal /\ final # final_offset) \/ (final = NoVal /\ end > final_offset)
         THEN /\ last' = L("received_reset", id, NoDir, "FINAL_SIZE_ERROR", NoVal)
              /\ UNCHANGED <<config, counters, sendflow, recvflow, send, recv,
                             send_streams, pending, events, connection_blocked, inflight>>
         ELSE LET r == RecvReset(rs, error_code, final_offset) IN
              IF ~r.fresh
              THEN /\ last' = L("received_reset", id, NoDir, "Ok", 0)
                   /\ UNCHANGED <<config, counters, sendflow, recvflow, send, recv,
                                  send_streams, pending, events, connection_blocked,
                                  inflight>>
              ELSE LET bytes_read == r.stream.assembler.bytes_read
                       stopped == r.stream.assembler.stopped
                       o == OnStreamFrame(~stopped, id, events)
                       c == AddReadCredits(SubU64(final_offset, bytes_read))
                   IN
                   /\ Len(o.events) <= events_cap
                   /\ recv' = IF stopped THEN Drop(recv, id)
                              ELSE [recv EXCEPT ![id] = r.stream]
                   /\ next_remote' = o.next_remote
                   /\ opened' = o.opened
                   /\ events' = o.events
                   /\ IF bytes_read # final_offset
                      THEN /\ data_recvd' = AddU64(data_recvd, SubU64(final_offset, end))
                           /\ local_max_data' = c.local_max_data
                           /\ last' = L("received_reset", id, NoDir, "Ok",
                                        IF c.transmit THEN 1 ELSE 0)
                      ELSE /\ last' = L("received_reset", id, NoDir, "Ok", 0)
                           /\ UNCHANGED <<data_recvd, local_max_data>>
                   /\ UNCHANGED <<config, next, max, max_remote, next_reported_remote,
                                  sendflow, sent_max_data, send, send_streams, pending,
                                  connection_blocked, inflight>>

\* stop that issues no flow control credit for the unread data
StopNoCredit(id) ==
    IF id \notin DOMAIN recv \/ (id \in DOMAIN recv /\ recv[id].assembler.stopped)
    THEN /\ last' = L("stop", id, NoDir, "UnknownStream", NoVal)
         /\ UNCHANGED <<config, counters, sendflow, recvflow, send, recv, send_streams,
                        pending, events, connection_blocked, inflight>>
    ELSE LET stream == [recv[id] EXCEPT !.assembler = AsmStop(@)] IN
         /\ recv' = [recv EXCEPT ![id] = stream]
         /\ last' = L("stop", id, NoDir,
                      IF ~RecvIsFinished(stream) THEN "StopSending" ELSE "NoStopSending",
                      0)
         /\ UNCHANGED <<config, counters, sendflow, recvflow, send,
                        send_streams, pending, events, connection_blocked, inflight>>

\* Streams::stop
Stop(id) ==
    IF id \notin DOMAIN recv \/ (id \in DOMAIN recv /\ recv[id].assembler.stopped)
    THEN /\ last' = L("stop", id, NoDir, "UnknownStream", NoVal)
         /\ UNCHANGED <<config, counters, sendflow, recvflow, send, recv, send_streams,
                        pending, events, connection_blocked, inflight>>
    ELSE LET stream == [recv[id] EXCEPT !.assembler = AsmStop(@)]
             read_credits == SubU64(recv[id].assembler.end, recv[id].assembler.bytes_read)
             c == AddReadCredits(read_credits)
         IN
         /\ recv' = [recv EXCEPT ![id] = stream]
         /\ local_max_data' = c.local_max_data
         /\ last' = L("stop", id, NoDir,
                      IF ~RecvIsFinished(stream) THEN "StopSending" ELSE "NoStopSending",
                      IF c.transmit THEN 1 ELSE 0)
         /\ UNCHANGED <<config, counters, sendflow, sent_max_data, data_recvd, send,
                        send_streams, pending, events, connection_blocked, inflight>>

\* a read tail that forgets the stream whatever was read
ReadResultForgets(op, id, r) ==
    /\ recv' = Drop(recv, id)
    /\ last' = L(op, id, NoDir, r.res, r.val)
    /\ UNCHANGED <<config, counters, sendflow, recvflow, send, send_streams,
                   pending, events, connection_blocked, inflight>>

\* the tail shared by Streams::read and Streams::read_unordered: r is what
\* Recv::read or Recv::read_unordered returned
ReadResult(op, id, r) ==
    IF r.res = "Some"
    THEN LET c == AddReadCredits(r.val) IN
         /\ recv' = [recv EXCEPT ![id] = r.stream]
         /\ local_max_data' = c.local_max_data
         /\ last' = L(op, id, NoDir, "Some", r.val)
         /\ UNCHANGED <<config, counters, sendflow, sent_max_data, data_recvd, send,
                        send_streams, pending, events, connection_blocked, inflight>>
    ELSE IF r.res \in {"None", "Reset"}
    THEN /\ recv' = Drop(recv, id)
         /\ last' = L(op, id, NoDir, r.res, r.val)
         /\ UNCHANGED <<config, counters, sendflow, recvflow, send, send_streams,
                        pending, events, connection_blocked, inflight>>
    ELSE /\ recv' = [recv EXCEPT ![id] = r.stream]
         /\ last' = L(op, id, NoDir, r.res, r.val)
         /\ UNCHANGED <<config, counters, sendflow, recvflow, send, send_streams,
                        pending, events, connection_blocked, inflight>>

\* Streams::read into a buffer of n bytes
Read(id, n) ==
    IF id \notin DOMAIN recv
    THEN /\ last' = L("read", id, NoDir, "UnknownStream", NoVal)
         /\ UNCHANGED <<config, counters, sendflow, recvflow, send, recv, send_streams,
                        pending, events, connection_blocked, inflight>>
    ELSE ReadResult("read", id, RecvRead(recv[id], n))

\* Streams::read_unordered; the assembler picks the fragment it returns
ReadUnordered(id) ==
    IF id \notin DOMAIN recv
    THEN /\ last' = L("read_unordered", id, NoDir, "UnknownStream", NoVal)
         /\ UNCHANGED <<config, counters, sendflow, recvflow, send, recv, send_streams,
                        pending, events, connection_blocked, inflight>>
    ELSE IF AsmFragments(recv[id].assembler) = {} \/ recv[id].assembler.stopped
    THEN ReadResult("read_unordered", id, RecvReadUnordered(recv[id], <<0, 0>>))
    ELSE \E f \in AsmFragments(recv[id].assembler) :
            ReadResult("read_unordered", id, RecvReadUnordered(recv[id], f))

\* Streams::write_control_frames, its MAX_DATA and MAX_STREAM_DATA parts:
\* send_max_data says that pending.max_data is set and buf has room for the
\* frame, ids are the streams of pending.max_stream_data that buf has room for
WriteControlFrames(send_max_data, ids) ==
    /\ sent_max_data' = IF send_max_data
                        THEN RecordSentMaxData(Min(local_max_data, VarIntMax))
                        ELSE sent_max_data
    /\ recv' = [id \in DOMAIN recv |->
                  IF id \in ids /\ ~RecvIsFinished(recv[id])
                  THEN RecvRecordSentMaxStreamData(recv[id],
                           RecvMaxStreamData(recv[id], stream_receive_window)[1])
                  ELSE recv[id]]
    /\ last' = L("write_control_frames", NoVal, NoDir, "Ok", NoVal)
    /\ UNCHANGED <<config, counters, sendflow, local_max_data, data_recvd, send,
                   send_streams, pending, events, connection_blocked, inflight>>

\* ---------------------------------------------------------- specifications
\* the two streams of index 0 that can have a send half at a client
LocalUni0 == NewId("Client", "Uni", 0)
PeerBi0 == NewId("Server", "Bi", 0)
SendIds == {LocalUni0, PeerBi0}

\* The send data path: every operation that reads or writes the send map,
\* pending, connection_blocked or the send flow-control counters, called on
\* the stream ids ids.  set_params grants su Uni streams and no Bi stream,
\* and the peer's data limits are top - 1 or top.
SendPathOn(ids, su, top) ==
    \/ \E u \in {top - 1, top} : Open(ParamsOf(0, 0, 0, 0, 0, u), "Uni")
    \/ \E d \in {top - 1, top}, bl \in {top - 1, top} :
          SetParams(ParamsOf(0, su, d, bl, 0, 0))
    \/ ZeroRttRejected
    \/ \E id \in ids, n \in 0..MaxWrite : Write(id, n)
    \/ \E id \in ids : Finish(id)
    \/ \E id \in ids : Reset(id)
    \/ \E id \in ids : ResetAcked(id)
    \/ \E id \in ids, c \in Codes : ReceivedStopSending(id, c)
    \/ \E m \in 0..MaxBuf : WriteStreamFrames(m)
    \/ \E f \in inflight : ReceivedAckOf(f)
    \/ \E f \in inflight : Retransmit(f)
    \/ RetransmitAllFor0rtt
    \/ \E n \in 0..top : ReceivedMaxData(n)
    \/ \E id \in ids, offset \in 0..top : ReceivedMaxStreamData(id, offset)
    \/ Poll

\* the send data path on both stream ids
SendPath(su, top) == SendPathOn(SendIds, su, top)

\* SpecSend: a client whose peer may open no stream; its only stream is the
\* Uni stream 0 it opens itself
InitSend ==
    /\ \E sw \in {1, 2} : New("Client", 0, 0, sw, 1, 1)
    /\ last = Unrecorded
    /\ observed = {}
    /\ events_cap = MaxEvents
    /\ pending_cap = MaxPending

NextSend == SendPath(1, VarIntMax)

SpecSend == InitSend /\ [][NextSend]_vars

\* SpecSendPeer: a client that is granted no stream of its own; its only
\* stream is the peer-initiated Bi stream 0
InitSendPeer ==
    /\ \E sw \in {1, 2} : New("Client", 0, 1, sw, 1, 1)
    /\ last = Unrecorded
    /\ observed = {}
    /\ events_cap = MaxEvents
    /\ pending_cap = MaxPending

NextSendPeer == SendPath(0, 1)

SpecSendPeer == InitSendPeer /\ [][NextSendPeer]_vars

\* SpecOpen: the counters of locally initiated streams and what open
\* returns.  Streams carry no data; every call's result is observed in last.
IdParams == ParamsOf(0, 0, 1, 1, 1, 1)
InitOpen ==
    /\ \E s \in Sides : New(s, 0, 0, 1, 1, 1)
    /\ last = Called("new", NoVal, NoDir, "Ok", NoVal)
    /\ observed = AllOps
    /\ events_cap = MaxEvents
    /\ pending_cap = MaxPending

NextOpen ==
    \/ \E d \in Dirs : Open(IdParams, d)
    \/ \E sb \in 0..MaxStreamCount, su \in 0..MaxStreamCount :
          SetParams(ParamsOf(sb, su, 1, 1, 0, 0))
    \/ ZeroRttRejected
    \/ \E d \in Dirs, count \in 1..(MaxStreamCount + 1) : ReceivedMaxStreams(d, count)
    \/ Poll

SpecOpen == InitOpen /\ [][NextOpen]_vars

\* SpecAccept: the counters of peer-initiated streams and what accept
\* returns.  The peer's frames are empty STREAM frames and MAX_STREAM_DATA on
\* any peer-initiated id or on the local Bi stream 0 (never opened),
\* STOP_SENDING on Bi ids and RESET_STREAM at offset 0 on Uni ids; every
\* call's result is observed in last.
PeerIds == {id \in AllIds : Initiator(id) = "Server"}
FrameIds == PeerIds \cup {NewId("Client", "Bi", 0)}
InitAccept ==
    /\ \E mru \in 0..1, mrb \in 0..1 : New("Client", mru, mrb, 1, 1, 1)
    /\ last = Called("new", NoVal, NoDir, "Ok", NoVal)
    /\ observed = AllOps
    /\ events_cap = MaxEvents
    /\ pending_cap = MaxPending

NextAccept ==
    \/ \E d \in Dirs : AllocRemoteStream(IdParams, d)
    \/ \E d \in Dirs : Accept(d)
    \/ \E id \in FrameIds : ReceivedMaxStreamData(id, 1)
    \/ \E id \in FrameIds : Received(id, 0, 0, FALSE)
    \/ \E id \in {x \in PeerIds : IdDir(x) = "Bi"}, c \in Codes : ReceivedStopSending(id, c)
    \/ \E id \in {x \in PeerIds : IdDir(x) = "Uni"}, c \in Codes : ReceivedReset(id, c, 0)
    \/ Poll

SpecAccept == InitAccept /\ [][NextAccept]_vars

\* SpecRecv: the receive data path over the client's own Bi stream 0: STREAM and RESET_STREAM frames that end at or
\* below MaxOffset, reads, stop, and the MAX_DATA and MAX_STREAM_DATA parts of
\* write_control_frames; every call's result is observed in last.  Either the
\* connection's receive window or the stream's is the smaller one.
LocalBi0 == NewId("Client", "Bi", 0)
RecvIds == {LocalBi0}
InitRecv ==
    /\ \E w \in {<<1, 2>>, <<2, 1>>} : New("Client", 0, 0, 1, w[1], w[2])
    /\ last = Called("new", NoVal, NoDir, "Ok", NoVal)
    /\ observed = AllOps
    /\ events_cap = MaxEvents
    /\ pending_cap = MaxPending

NextRecv ==
    \/ SetParams(ParamsOf(1, 0, 1, 1, 0, 0))
    \/ Open(IdParams, "Bi")
    \/ ZeroRttRejected
    \/ \E id \in RecvIds, offset \in 0..MaxOffset, len \in 0..MaxOffset, fin \in BOOLEAN :
          offset + len <= MaxOffset /\ Received(id, offset, len, fin)
    \/ \E id \in RecvIds, c \in Codes, final_offset \in 0..MaxOffset :
          ReceivedReset(id, c, final_offset)
    \/ \E id \in RecvIds, n \in 0..MaxOffset : Read(id, n)
    \/ \E id \in RecvIds : ReadUnordered(id)
    \/ \E id \in RecvIds : Stop(id)
    \/ \E b \in BOOLEAN, ids \in SUBSET RecvIds : WriteControlFrames(b, ids)
    \/ Poll

SpecRecv == InitRecv /\ [][NextRecv]_vars

\* SpecWritePeer: the send data path of SpecSendPeer, with every call of
\* write and what it returned observed in last
InitWritePeer ==
    /\ \E sw \in {1, 2} : New("Client", 0, 1, sw, 1, 1)
    /\ last = Unobserved
    /\ observed = {"write"}
    /\ events_cap = MaxEvents
    /\ pending_cap = MaxPending

SpecWritePeer == InitWritePeer /\ [][NextSendPeer]_vars

\* SpecSendPeerFair, SpecSendFair: SpecSendPeer and SpecSend with an
\* application that keeps calling poll
SpecSendPeerFair == InitSendPeer /\ [][NextSendPeer]_vars /\ WF_vars(Poll)

SpecSendFair == InitSend /\ [][NextSend]_vars /\ WF_vars(Poll)

\* SpecFinishPeer: the send data path of SpecSendPeer, with every call of
\* finish and what it returned observed in last
InitFinishPeer ==
    /\ \E sw \in {1, 2} : New("Client", 0, 1, sw, 1, 1)
    /\ last = Unobserved
    /\ observed = {"finish"}
    /\ events_cap = MaxEvents
    /\ pending_cap = MaxPending

SpecFinishPeer == InitFinishPeer /\ [][NextSendPeer]_vars

\* SpecReset: the send data path on the client's own Uni stream 0, with every
\* call of reset and what it returned observed in last
InitReset ==
    /\ \E sw \in {1, 2} : New("Client", 0, 0, sw, 1, 1)
    /\ last = Unobserved
    /\ observed = {"reset"}
    /\ events_cap = MaxEvents
    /\ pending_cap = MaxPending

NextReset == SendPathOn({LocalUni0}, 1, VarIntMax)

SpecReset == InitReset /\ [][NextReset]_vars

\* SpecFrames: the receive data path of SpecRecv without write_control_frames
\* (no MAX_DATA or MAX_STREAM_DATA frame is recorded as sent) and with STREAM
\* frames of any offset a VarInt can carry, so that a frame may end at 2^62
NextFrames ==
    \/ SetParams(ParamsOf(1, 0, 1, 1, 0, 0))
    \/ Open(IdParams, "Bi")
    \/ ZeroRttRejected
    \/ \E id \in RecvIds, offset \in 0..VarIntMax, len \in 0..MaxWrite, fin \in BOOLEAN :
          offset + len <= Pow62 /\ Received(id, offset, len, fin)
    \/ \E id \in RecvIds, c \in Codes, final_offset \in 0..VarIntMax :
          ReceivedReset(id, c, final_offset)
    \/ \E id \in RecvIds, n \in 0..MaxOffset : Read(id, n)
    \/ \E id \in RecvIds : ReadUnordered(id)
    \/ \E id \in RecvIds : Stop(id)
    \/ Poll

SpecFrames == InitRecv /\ [][NextFrames]_vars

\* SpecReadable: STREAM frames (empty, at offset 0, with or without FIN) and
\* RESET_STREAM frames on the client's own Bi stream 0 and on every
\* peer-initiated stream, with stop, accept and poll; poll is called again
\* and again.  Every call's result is observed in last.
ReadableIds == {LocalBi0} \cup {id \in PeerIds : IdDir(id) = "Uni"}
InitReadable ==
    /\ \E mru \in 0..2 : New("Client", mru, 0, 1, 1, 1)
    /\ last = Called("new", NoVal, NoDir, "Ok", NoVal)
    /\ observed = AllOps
    /\ events_cap = MaxEvents
    /\ pending_cap = MaxPending

NextReadable ==
    \/ SetParams(ParamsOf(1, 0, 1, 1, 0, 0))
    \/ Open(IdParams, "Bi")
    \/ \E id \in ReadableIds, fin \in BOOLEAN : Received(id, 0, 0, fin)
    \/ \E id \in ReadableIds, c \in Codes : ReceivedReset(id, c, 0)
    \/ \E id \in ReadableIds : Stop(id)
    \/ Accept("Uni")
    \/ Poll

SpecReadable == InitReadable /\ [][NextReadable]_vars /\ WF_vars(Poll)

\* SpecMaxStreamData: MAX_STREAM_DATA frames on the peer-initiated Bi stream
\* 0, on the peer's Uni stream 0 and on the client's own Uni stream 0, which
\* is never opened, among the calls that write, finish, reset, transmit and
\* acknowledge the Bi stream; every call of received_max_stream_data and what
\* it returned is observed in last
MaxStreamDataIds == SendIds \cup {NewId("Server", "Uni", 0)}
InitMaxStreamData ==
    /\ \E sw \in {1, 2} : New("Client", 0, 1, sw, 1, 1)
    /\ last = Unobserved
    /\ observed = {"received_max_stream_data"}
    /\ events_cap = MaxEvents
    /\ pending_cap = MaxPending

NextMaxStreamData ==
    \/ \E d \in {0, 1}, bl \in {0, 1} : SetParams(ParamsOf(0, 0, d, bl, 0, 0))
    \/ ZeroRttRejected
    \/ \E n \in 0..MaxWrite : Write(PeerBi0, n)
    \/ Finish(PeerBi0)
    \/ Reset(PeerBi0)
    \/ \E m \in 0..MaxBuf : WriteStreamFrames(m)
    \/ \E f \in inflight : ReceivedAckOf(f)
    \/ \E id \in MaxStreamDataIds, offset \in 0..1 : ReceivedMaxStreamData(id, offset)
    \/ Poll

SpecMaxStreamData == InitMaxStreamData /\ [][NextMaxStreamData]_vars

\* SpecStopSending: the send data path of SpecSendPeer, with every call of
\* received_stop_sending observed in last
InitStopSending ==
    /\ \E sw \in {1, 2} : New("Client", 0, 1, sw, 1, 1)
    /\ last = Unobserved
    /\ observed = {"received_stop_sending"}
    /\ events_cap = MaxEvents
    /\ pending_cap = MaxPending

SpecStopSending == InitStopSending /\ [][NextSendPeer]_vars

\* SpecZeroRtt: a client with streams of its own in both directions next to
\* the peer-initiated Bi stream 0: set_params, open, write, blocked writes,
\* STREAM frames on both Bi streams, write_stream_frames, poll and
\* zero_rtt_rejected, whose calls are observed in last
ZeroRttIds == {LocalUni0, LocalBi0, PeerBi0}
InitZeroRtt ==
    /\ New("Client", 0, 1, 1, 1, 1)
    /\ last = Unobserved
    /\ observed = {"zero_rtt_rejected"}
    /\ events_cap = MaxEvents
    /\ pending_cap = MaxPending

NextZeroRtt ==
    \/ SetParams(ParamsOf(1, 1, 1, 1, 1, 1))
    \/ \E d \in Dirs : Open(IdParams, d)
    \/ \E id \in ZeroRttIds, n \in 0..1 : Write(id, n)
    \/ \E id \in ZeroRttIds \ {LocalUni0}, len \in 0..1 : Received(id, 0, len, FALSE)
    \/ \E m \in 0..MaxBuf : WriteStreamFrames(m)
    \/ ZeroRttRejected
    \/ Poll

SpecZeroRtt == InitZeroRtt /\ [][NextZeroRtt]_vars

\* SpecPoll: what poll returns.  The peer opens its Bi stream 0 and its Uni
\* stream 0 by empty STREAM frames and sends STOP_SENDING, MAX_DATA and
\* MAX_STREAM_DATA; the client opens its Uni stream 0, writes to it and to
\* the peer's Bi stream, finishes the latter, and is blocked by the
\* connection's limit.  The events queue holds one event more than in the
\* other specifications, and every call of poll is observed in last.
PollIds == {PeerBi0, NewId("Server", "Uni", 0)}
InitPoll ==
    /\ New("Client", 1, 1, 1, 1, 1)
    /\ last = Unobserved
    /\ observed = {"poll"}
    /\ events_cap = MaxEvents + 1
    /\ pending_cap = MaxPending

NextPoll ==
    \/ \E id \in PollIds : Received(id, 0, 0, FALSE)
    \/ \E c \in Codes : ReceivedStopSending(PeerBi0, c)
    \/ SetParams(ParamsOf(0, 1, 0, 1, 0, 1))
    \/ Open(IdParams, "Uni")
    \/ \E id \in SendIds : Write(id, 1)
    \/ Finish(PeerBi0)
    \/ ReceivedMaxData(1)
    \/ ReceivedMaxStreamData(PeerBi0, 1)
    \/ Poll

SpecPoll == InitPoll /\ [][NextPoll]_vars

\* SpecRoundRobin: a client with its own Uni streams 0 and 1: set_params,
\* open, writes of zero or one byte, finish, write_stream_frames and
\* acknowledgements.  The pending queue holds one id more than in the other
\* specifications.
RoundRobinIds == {NewId("Client", "Uni", 0), NewId("Client", "Uni", 1)}
InitRoundRobin ==
    /\ New("Client", 0, 0, 2, 1, 1)
    /\ last = Unrecorded
    /\ observed = {}
    /\ events_cap = MaxEvents
    /\ pending_cap = MaxPending + 1

NextRoundRobin ==
    \/ SetParams(ParamsOf(0, 2, 2, 0, 0, 1))
    \/ Open(ParamsOf(0, 0, 0, 0, 0, 1), "Uni")
    \/ \E id \in RoundRobinIds, n \in 0..1 : Write(id, n)
    \/ \E id \in RoundRobinIds : Finish(id)
    \/ \E m \in 0..MaxBuf : WriteStreamFrames(m)
    \/ \E f \in inflight : ReceivedAckOf(f)

SpecRoundRobin == InitRoundRobin /\ [][NextRoundRobin]_vars

\* SpecValidate: STREAM and RESET_STREAM frames on every stream id of either
\* side, direction and index, for a client that opens its Bi stream 0 and
\* grants the peer at most one stream of each direction; frames are empty and resets are at offset 0.  Calls of
\* received and received_reset are observed in last.
InitValidate ==
    /\ \E mru \in 0..1, mrb \in 0..1 : New("Client", mru, mrb, 1, 1, 1)
    /\ last = Unobserved
    /\ observed = {"received", "received_reset"}
    /\ events_cap = MaxEvents
    /\ pending_cap = MaxPending

NextValidate ==
    \/ SetParams(ParamsOf(1, 0, 1, 1, 0, 0))
    \/ Open(IdParams, "Bi")
    \/ \E id \in AllIds, fin \in BOOLEAN : Received(id, 0, 0, fin)
    \/ \E id \in AllIds, c \in Codes : ReceivedReset(id, c, 0)
    \/ Poll

SpecValidate == InitValidate /\ [][NextValidate]_vars

\* SpecStreamId: StreamId::new applied to every side, directionality and index
\* that fits the integer; last holds the arguments (res the side, val the
\* index) and the id made from them
StreamIdIndexes == 0..(IdMod - 1)
InitStreamId ==
    /\ \E s \in Sides : New(s, 0, 0, 1, 1, 1)
    /\ last = Unobserved
    /\ observed = {}
    /\ events_cap = MaxEvents
    /\ pending_cap = MaxPending

StreamIdNew(s, d, i) ==
    /\ last' = Called("stream_id", NewId(s, d, i), d, s, i)
    /\ UNCHANGED <<config, counters, sendflow, recvflow, send, recv, send_streams,
                   pending, events, connection_blocked, inflight>>

NextStreamId == \E s \in Sides, d \in Dirs, i \in StreamIdIndexes : StreamIdNew(s, d, i)

SpecStreamId == InitStreamId /\ [][NextStreamId]_vars

\* SpecRetransmit: the client's Uni stream 0 with writes, finish, reset,
\* transmission, acknowledgement and loss, for a caller that keeps calling
\* write_stream_frames with room for one frame when nothing is in flight and
\* learns of every frame in flight that it is acknowledged or lost; the
\* network does not lose every packet
Transmit(m) == inflight = {} /\ WriteStreamFrames(m)
InFlightSettled == \E f \in inflight : ReceivedAckOf(f) \/ Retransmit(f)
Delivered == \E f \in inflight : ReceivedAckOf(f)
InitRetransmit ==
    /\ New("Client", 0, 0, 2, 1, 1)
    /\ last = Unrecorded
    /\ observed = {}
    /\ events_cap = MaxEvents
    /\ pending_cap = MaxPending

NextRetransmit ==
    \/ SetParams(ParamsOf(0, 1, 2, 0, 0, 2))
    \/ Open(ParamsOf(0, 0, 0, 0, 0, 2), "Uni")
    \/ \E n \in 0..MaxWrite : Write(LocalUni0, n)
    \/ Finish(LocalUni0)
    \/ Reset(LocalUni0)
    \/ ResetAcked(LocalUni0)
    \/ ZeroRttRejected
    \/ \E m \in 0..MaxBuf : WriteStreamFrames(m)
    \/ \E f \in inflight : ReceivedAckOf(f)
    \/ \E f \in inflight : Retransmit(f)
    \/ Poll

SpecRetransmit ==
    /\ InitRetransmit
    /\ [][NextRetransmit]_vars
    /\ WF_vars(Transmit(StreamSizeBound + 1))
    /\ WF_vars(InFlightSettled)
    /\ SF_vars(Delivered)

\* ------------------------------------------------------------------ claims
\* C1: after every operation data_sent <= max_data and
\* unacked_data <= send_window, so neither subtraction of write's budget
\* underflows
FlowControlInv == data_sent <= max_data /\ unacked_data <= send_window
\* a write was accepted up to the connection limit, acknowledged in part, and
\* the limit was then raised by the peer
FlowControlWitness ==
    /\ data_sent = VarIntMax
    /\ max_data = VarIntMax
    /\ unacked_data = 1
    /\ send_window = 2
    /\ \E id \in DOMAIN send : SendOffset(send[id]) = 2

\* C2: for every entry of the send map the write offset is at most the
\* stream's max_data
StreamOffsetInv ==
    \A id \in DOMAIN send : SendOffset(send[id]) <= send[id].max_data

\* C4: every id in the pending queue names a send stream that has unsent
\* data or has fin_pending set
PendingInv ==
    \A i \in 1..Len(pending) :
        pending[i] \in DOMAIN send /\ SendIsPending(send[pending[i]])

\* C5: an id is in the connection_blocked list iff that stream's
\* connection_blocked flag is set, and it is in the list at most once
ConnectionBlockedInv ==
    /\ \A id \in AllIds :
          id \in Range(connection_blocked)
              <=> (id \in DOMAIN send /\ send[id].connection_blocked)
    /\ \A i, j \in 1..Len(connection_blocked) :
          connection_blocked[i] = connection_blocked[j] => i = j

\* C7 as stated: a step removes the entry of id from the send map only when
\* received_ack_of takes it from DataSent to DataRecvd or reset_acked finds
\* it in ResetSent
AckRemoves(id) ==
    /\ send[id].state = "DataSent"
    /\ \E f \in inflight :
          /\ f.id = id
          /\ inflight' = inflight \ {f}
          /\ send[id].finish_acked \/ f.fin
          /\ SBIsFullyAcked(SBAck(send[id].pending, f.start, f.end))
ResetAckedRemoves(id) ==
    /\ send[id].state = "ResetSent"
    /\ send_streams' = SubU64(send_streams, 1)
    /\ UNCHANGED <<next, pending, inflight>>
ZeroRttRemoves(id) ==
    /\ Initiator(id) = side
    /\ Index(id) < next[IdDir(id)]
    /\ next' = [d \in Dirs |-> 0]
    /\ pending' = <<>>
    /\ data_sent' = 0
NoTerminalSend ==
    \A id \in DOMAIN send : send[id].state \in {"Ready", "DataSent", "ResetSent"}
SendRemovalOnlyTerminal ==
    /\ []NoTerminalSend
    /\ [][\A id \in DOMAIN send :
            id \notin DOMAIN send' => AckRemoves(id) \/ ResetAckedRemoves(id)]_vars

\* C7, amended: a step removes the entry of id from the send map only when
\* received_ack_of takes it from DataSent to DataRecvd, when reset_acked
\* finds it in ResetSent, or when zero_rtt_rejected discards every locally
\* opened stream whatever its state; and no entry of the map is in DataRecvd
\* or ResetRecvd
SendRemoval ==
    /\ []NoTerminalSend
    /\ [][\A id \in DOMAIN send :
            id \notin DOMAIN send' =>
                AckRemoves(id) \/ ResetAckedRemoves(id) \/ ZeroRttRemoves(id)]_vars
\* the stream was finished, acknowledged in full and dropped from the map
SendRemovalWitness ==
    \E i \in 1..Len(events) :
        events[i].type = "Finished" /\ events[i].id \notin DOMAIN send

\* C3: for each direction next_reported_remote <= next_remote <= max_remote
RemoteCountersInv ==
    \A d \in Dirs :
        next_reported_remote[d] <= next_remote[d] /\ next_remote[d] <= max_remote[d]

\* C9: accept(dir) returns Some exactly when next_reported_remote[dir] <
\* next_remote[dir]; what it returns is the peer-initiated id of index
\* next_reported_remote[dir], which it then increments, so that successive
\* results have indices 0, 1, 2, ...; a Bi accept adds one to send_streams
AcceptStep(d) ==
    IF next_reported_remote[d] < next_remote[d]
    THEN /\ last'.res = "Some"
         /\ last'.val = NewId(Other(side), d, next_reported_remote[d])
         /\ next_reported_remote' = [next_reported_remote EXCEPT ![d] = @ + 1]
         /\ send_streams' = IF d = "Bi" THEN AddU64(send_streams, 1) ELSE send_streams
    ELSE /\ last'.res = "None"
         /\ UNCHANGED <<next_reported_remote, send_streams>>
AcceptInOrder == [][last'.op = "accept" => AcceptStep(last'.dir)]_vars
\* the second Bi stream of the peer has just been accepted
AcceptInOrderWitness ==
    /\ last.op = "accept" /\ last.res = "Some"
    /\ last.val = NewId(Other(side), "Bi", 1)
    /\ next_reported_remote["Bi"] = 2

\* C10, open itself: it returns None exactly when next[dir] >= max[dir];
\* otherwise it returns the local id of index next[dir], creates its send
\* state (and a recv state only for Bi) and adds one to next[dir] and to
\* send_streams
OpenStep(d) ==
    LET id == NewId(side, d, next[d]) IN
    IF next[d] >= max[d]
    THEN /\ last'.res = "None"
         /\ UNCHANGED <<next, send, recv, send_streams>>
    ELSE /\ last'.res = "Some" /\ last'.val = id
         /\ id \notin DOMAIN send /\ DOMAIN send' = DOMAIN send \cup {id}
         /\ DOMAIN recv' = (IF d = "Bi" THEN DOMAIN recv \cup {id} ELSE DOMAIN recv)
         /\ d = "Bi" => id \notin DOMAIN recv
         /\ next' = [next EXCEPT ![d] = @ + 1]
         /\ send_streams' = AddU64(send_streams, 1)
OpenBehaviour == [][last'.op = "open" => OpenStep(last'.dir)]_vars
\* every locally initiated stream of the send map has an index below next
LocalBelowNext ==
    \A id \in DOMAIN send : Initiator(id) = side => Index(id) < next[IdDir(id)]
NextWithinMax == \A d \in Dirs : next[d] <= max[d]

\* C10 as stated: open behaves as described, and hence next[dir] <= max[dir]
\* in every reachable state
OpenWithinLimitAlways ==
    /\ OpenBehaviour
    /\ []LocalBelowNext
    /\ []NextWithinMax

\* C10, amended: open behaves as described and every operation other than
\* set_params preserves next[dir] <= max[dir]; set_params assigns max[dir]
\* from the peer's parameters whatever next[dir] is
OpenWithinLimit ==
    /\ OpenBehaviour
    /\ []LocalBelowNext
    /\ [][last'.op # "set_params" /\ NextWithinMax => NextWithinMax']_vars
\* the second Uni stream has just been opened, reaching the peer's limit
OpenWithinLimitWitness ==
    /\ last.op = "open" /\ last.res = "Some"
    /\ last.val = NewId(side, "Uni", 1)
    /\ next["Uni"] = 2 /\ max["Uni"] = 2

\* C6: local_max_data never decreases, sent_max_data <= local_max_data in
\* every state, and both start at receive_window
MaxDataCredit ==
    /\ local_max_data = receive_window /\ sent_max_data = receive_window
    /\ [](sent_max_data <= local_max_data)
    /\ [][local_max_data' >= local_max_data]_vars
\* credit was issued beyond what a MAX_DATA frame can carry, and the largest
\* MAX_DATA was sent
MaxDataCreditWitness ==
    /\ receive_window = 1
    /\ sent_max_data = VarIntMax
    /\ local_max_data > VarIntMax

\* C8: the steps that remove the entry of id from the recv map
FrameRemoves(id) ==
    /\ last'.op \in {"received", "received_reset"}
    /\ last'.id = id /\ last'.res = "Ok"
    /\ recv[id].assembler.stopped
    /\ ~RecvIsFinished(recv[id])
ReadRemoves(id) ==
    /\ last'.op \in {"read", "read_unordered"}
    /\ last'.id = id
    /\ last'.res \in {"None", "Reset"}
ZeroRttRemovesRecv(id) ==
    /\ last'.op = "zero_rtt_rejected"
    /\ Initiator(id) = side /\ IdDir(id) = "Bi" /\ Index(id) < next["Bi"]
\* a read that returns None or Reset removes the entry and any other read
\* leaves the map alone; a stopped stream that a FIN closes or a reset ends
\* does not stay in the map
RemovalHappens ==
    /\ last'.op \in {"read", "read_unordered"} =>
          IF last'.res \in {"None", "Reset"}
          THEN DOMAIN recv' = DOMAIN recv \ {last'.id}
          ELSE DOMAIN recv' = DOMAIN recv
    /\ last'.op \in {"received", "received_reset"} /\ last'.res = "Ok" =>
          \A id \in DOMAIN recv \cap DOMAIN recv' :
              last'.id = id /\ recv[id].assembler.stopped /\ ~RecvIsFinished(recv[id])
                  => ~RecvIsFinished(recv'[id])
WriteBudget(id, n) ==
    Min(Min(n, max_data - data_sent),
        Min(send_window - unacked_data, send[id].max_data - SendOffset(send[id])))
\* a write that returned Ok(k) took exactly k bytes
WriteCounts(id, k) ==
    /\ data_sent' = data_sent + k
    /\ unacked_data' = unacked_data + k
    /\ id \in DOMAIN send' /\ SendOffset(send'[id]) = SendOffset(send[id]) + k
\* C11: a successful write(id, data) returns
\* min(len(data), max_data - data_sent, send_window - unacked_data,
\* stream.max_data - stream offset), adds exactly that number to data_sent,
\* unacked_data and the stream offset, and leaves id in the pending queue
WriteAccepts ==
    [][\A id \in SendIds, n \in 0..MaxWrite :
          Write(id, n) /\ last'.op = "write" /\ last'.res = "Ok" =>
              /\ last'.val = WriteBudget(id, n)
              /\ WriteCounts(id, last'.val)
              /\ id \in Range(pending')]_vars
\* C11, the parts: the returned count alone, and the pending queue alone
WriteAcceptsCount ==
    [][\A id \in SendIds, n \in 0..MaxWrite :
          Write(id, n) /\ last'.op = "write" /\ last'.res = "Ok" =>
              last'.val = WriteBudget(id, n) /\ WriteCounts(id, last'.val)]_vars
WriteAcceptsQueued ==
    [][\A id \in SendIds, n \in 0..MaxWrite :
          Write(id, n) /\ last'.op = "write" /\ last'.res = "Ok" =>
              id \in Range(pending')]_vars

\* C12: write(id, data) returns UnknownStream when id has no send entry or
\* the stream is not in Ready, and Stopped(code) when the stream is in Ready
\* and STOP_SENDING(code) was received, whatever the data and the
\* flow-control state; such a write changes none of data_sent, unacked_data,
\* pending and connection_blocked
WriteRefuses ==
    [][\A id \in SendIds, n \in 0..MaxWrite :
          Write(id, n) /\ last'.op = "write" =>
              /\ id \notin DOMAIN send \/ (id \in DOMAIN send /\ send[id].state # "Ready") =>
                    /\ last'.res = "UnknownStream"
                    /\ UNCHANGED <<data_sent, unacked_data, pending, connection_blocked>>
              /\ id \in DOMAIN send /\ send[id].state = "Ready"
                      /\ send[id].stop_reason # NoCode =>
                    /\ last'.res = "Stopped" /\ last'.val = send[id].stop_reason
                    /\ UNCHANGED <<data_sent, unacked_data, pending, connection_blocked>>]_vars
\* C12 where the connection-level budget is not zero
WriteRefusesUnblocked ==
    [][\A id \in SendIds, n \in 0..MaxWrite :
          Write(id, n) /\ last'.op = "write"
                /\ max_data # data_sent /\ send_window # unacked_data =>
              /\ id \notin DOMAIN send \/ (id \in DOMAIN send /\ send[id].state # "Ready") =>
                    /\ last'.res = "UnknownStream"
                    /\ UNCHANGED <<data_sent, unacked_data, pending, connection_blocked>>
              /\ id \in DOMAIN send /\ send[id].state = "Ready"
                      /\ send[id].stop_reason # NoCode =>
                    /\ last'.res = "Stopped" /\ last'.val = send[id].stop_reason
                    /\ UNCHANGED <<data_sent, unacked_data, pending, connection_blocked>>]_vars

\* C13: a write of id was refused with Blocked by the connection-level limit
\* and has not been answered since (the stream's connection_blocked flag is
\* still set), the limit is lifted and the stream is in Ready
BlockedLifted(id) ==
    /\ id \in DOMAIN send
    /\ send[id].connection_blocked
    /\ send[id].state = "Ready"
    /\ ~FlowBlocked
WritableQueued(id) ==
    \E i \in 1..Len(events) : events[i] = Ev("Writable", id, NoDir, NoCode)
\* a MAX_STREAM_DATA that raises the limit of a stream in Ready that had
\* reached it queues Writable{id}
StreamUnblockQueues ==
    [][\A id \in SendIds, offset \in 0..VarIntMax :
          /\ ReceivedMaxStreamData(id, offset)
          /\ id \in DOMAIN send /\ send[id].state = "Ready"
          /\ SendOffset(send[id]) = send[id].max_data /\ offset > send[id].max_data
          => events' = Append(events, Ev("Writable", id, NoDir, NoCode))]_vars
\* C13: if write(id, ..) returned Blocked and the limit that blocked it is
\* then lifted while the stream stays in Ready, an application that keeps
\* calling poll eventually receives Writable{id}: the blocked stream does not
\* wait forever with its limit lifted, and a queued Writable{id} is delivered
BlockedThenWritable ==
    /\ \A id \in SendIds : []<>~BlockedLifted(id)
    /\ StreamUnblockQueues
    /\ \A id \in SendIds : []<>~WritableQueued(id)
\* C13, the stream-level limit alone
StreamBlockedThenWritable ==
    /\ StreamUnblockQueues
    /\ \A id \in SendIds : []<>~WritableQueued(id)
\* C13, the connection-level limit alone
ConnectionBlockedThenWritable == \A id \in SendIds : []<>~BlockedLifted(id)

\* C14: finish(id) may succeed: the stream is in Ready and no STOP_SENDING
\* was received
CanFinish(id) ==
    id \in DOMAIN send /\ send[id].state = "Ready" /\ send[id].stop_reason = NoCode
\* a call that changes nothing but what it returned
NothingChanges ==
    UNCHANGED <<side, send, recv, next, max, max_remote, next_remote, opened,
                next_reported_remote, send_streams, pending, events,
                connection_blocked, max_data, receive_window, local_max_data,
                sent_max_data, data_sent, data_recvd, unacked_data, send_window,
                stream_receive_window, inflight>>
\* what a successful finish does to the stream
FinishSucceeds(id) ==
    /\ last'.res = "Ok"
    /\ send'[id].state = "DataSent" /\ ~send'[id].finish_acked
    /\ send'[id].fin_pending
\* what a failed finish returns: UnknownStream for an unknown id or a state
\* other than Ready, Stopped(code) in Ready after STOP_SENDING(code)
FinishFails(id) ==
    /\ id \notin DOMAIN send \/ (id \in DOMAIN send /\ send[id].state # "Ready") =>
          last'.res = "UnknownStream"
    /\ id \in DOMAIN send /\ send[id].state = "Ready" =>
          last'.res = "Stopped" /\ last'.val = send[id].stop_reason
    /\ NothingChanges
\* C14: finish(id) succeeds only when the send stream is in Ready and no
\* STOP_SENDING was received; it then moves the stream to
\* DataSent{finish_acked: false}, sets fin_pending and leaves id in pending.
\* It returns UnknownStream when id is unknown or the state is not Ready and
\* Stopped(code) after STOP_SENDING(code), and a failed finish changes no
\* state
FinishContract ==
    [][\A id \in SendIds :
          Finish(id) /\ last'.op = "finish" =>
              IF CanFinish(id)
              THEN FinishSucceeds(id) /\ id \in Range(pending')
              ELSE FinishFails(id)]_vars
\* C14 without the pending queue
FinishResults ==
    [][\A id \in SendIds :
          Finish(id) /\ last'.op = "finish" =>
              IF CanFinish(id) THEN FinishSucceeds(id) ELSE FinishFails(id)]_vars
\* C14, the pending queue alone
FinishQueued ==
    [][\A id \in SendIds :
          Finish(id) /\ last'.op = "finish" /\ CanFinish(id) =>
              id \in Range(pending')]_vars
\* C14 with the code's order of the two errors: Stopped(code) whenever
\* STOP_SENDING(code) was received, whatever the state
FinishFailsStoppedFirst(id) ==
    /\ id \notin DOMAIN send => last'.res = "UnknownStream"
    /\ id \in DOMAIN send /\ send[id].stop_reason # NoCode =>
          last'.res = "Stopped" /\ last'.val = send[id].stop_reason
    /\ id \in DOMAIN send /\ send[id].stop_reason = NoCode =>
          last'.res = "UnknownStream"
    /\ NothingChanges
FinishResultsStoppedFirst ==
    [][\A id \in SendIds :
          Finish(id) /\ last'.op = "finish" =>
              IF CanFinish(id) THEN FinishSucceeds(id)
              ELSE FinishFailsStoppedFirst(id)]_vars

\* C15: what a call of reset(id) does
ResetStep(id) ==
    IF id \in DOMAIN send /\ send[id].state \in {"Ready", "DataSent"}
    THEN /\ last'.res = "Ok"
         /\ send'[id].state = "ResetSent"
         /\ unacked_data' = unacked_data - SBUnacked(send[id].pending)
         /\ data_sent' = data_sent
    ELSE last'.res = "UnknownStream" /\ NothingChanges
\* C15: what follows for a stream in ResetSent: it stays there while it is in
\* the map, no frame is emitted for it, and an ack of one of its frames
\* leaves unacked_data alone
ResetLasts(id) ==
    id \in DOMAIN send /\ send[id].state = "ResetSent" =>
        /\ id \in DOMAIN send' => send'[id].state = "ResetSent"
        /\ \A f \in inflight' \ inflight : f.id # id
        /\ \A f \in inflight : f.id = id /\ ReceivedAckOf(f) => unacked_data' = unacked_data
\* C15: reset(id) on a send stream in Ready or DataSent moves it to
\* ResetSent, decreases unacked_data by exactly the stream's bytes not yet
\* acknowledged and leaves data_sent unchanged; write_stream_frames never
\* again emits a frame for id and later acks for id do not change
\* unacked_data; a second reset(id), or reset of an unknown id, returns
\* UnknownStream and changes nothing
ResetContract ==
    [][\A id \in SendIds :
          /\ Reset(id) /\ last'.op = "reset" => ResetStep(id)
          /\ ResetLasts(id)]_vars
\* a stream of two bytes, one of them acknowledged and a frame still in
\* flight, has just been reset and the unacknowledged byte refunded
ResetContractWitness ==
    /\ last = Called("reset", LocalUni0, NoDir, "Ok", NoVal)
    /\ LocalUni0 \in DOMAIN send
    /\ send[LocalUni0].state = "ResetSent"
    /\ SendOffset(send[LocalUni0]) = 2
    /\ SBUnacked(send[LocalUni0].pending) = 1
    /\ \E f \in inflight : f.id = LocalUni0
    /\ unacked_data = 0

\* C16: what a call of stop(id) does
StopStep(id) ==
    IF id \in DOMAIN recv /\ ~recv[id].assembler.stopped
    THEN /\ id \in DOMAIN recv' /\ recv'[id].assembler.stopped
         /\ local_max_data' =
               Min(local_max_data
                     + (recv[id].assembler.end - recv[id].assembler.bytes_read),
                   U64Max)
         /\ last'.res = (IF recv[id].state = "Recv" THEN "StopSending"
                         ELSE "NoStopSending")
    ELSE last'.res = "UnknownStream" /\ NothingChanges
\* C16: what follows for a stopped stream: the flag is latched, and read and
\* read_unordered return UnknownStream
StopLasts(id) ==
    id \in DOMAIN recv /\ recv[id].assembler.stopped =>
        /\ id \in DOMAIN recv' => recv'[id].assembler.stopped
        /\ last'.op \in {"read", "read_unordered"} /\ last'.id = id =>
              last'.res = "UnknownStream"
\* C16: stop(id) on an existing, not yet stopped recv stream latches the
\* stopped flag, adds end - bytes_read to local_max_data (saturating at
\* u64::MAX) and reports stop_sending exactly when the stream has not
\* finished; afterwards read and read_unordered on id return UnknownStream,
\* and a second stop(id) returns an error without issuing credit again
StopContract ==
    [][\A id \in RecvIds :
          /\ last'.op = "stop" /\ last'.id = id => StopStep(id)
          /\ StopLasts(id)]_vars
\* a stream with one byte read and one byte received behind a gap has just
\* been stopped: the unread span is credited and STOP_SENDING is due
StopContractWitness ==
    /\ last.op = "stop" /\ last.id = LocalBi0 /\ last.res = "StopSending"
    /\ LocalBi0 \in DOMAIN recv
    /\ recv[LocalBi0].assembler.stopped
    /\ recv[LocalBi0].assembler.end = 2
    /\ recv[LocalBi0].assembler.bytes_read = 1
    /\ local_max_data = receive_window + 2
\* a second stop has just been refused
StopTwiceWitness ==
    /\ last.op = "stop" /\ last.res = "UnknownStream"
    /\ LocalBi0 \in DOMAIN recv /\ recv[LocalBi0].assembler.stopped

\* C17: the frame (offset, len) breaks a flow-control limit of stream id: it
\* ends beyond bytes_read + stream_receive_window, or its new bytes take
\* data_recvd beyond local_max_data, or it ends at or beyond 2^62
FlowViolation(id, offset, len) ==
    LET end == offset + len
        a == recv[id].assembler
    IN \/ end > a.bytes_read + stream_receive_window
       \/ data_recvd + Max(end - a.end, 0) > local_max_data
       \/ end >= Pow62
\* the frame conflicts with the final size of stream id, if known
FinalSizeConflict(id, offset, len, fin) ==
    /\ RecvFinalOffset(recv[id]) # NoVal
    /\ offset + len > RecvFinalOffset(recv[id])
          \/ (fin /\ offset + len # RecvFinalOffset(recv[id]))
\* a call that returned a transport error changed nothing
ErrorChangesNothing ==
    last'.res \in {"FLOW_CONTROL_ERROR", "FINAL_SIZE_ERROR", "STREAM_STATE_ERROR",
                   "STREAM_LIMIT_ERROR"} => NothingChanges
\* C17 as stated: received returns FLOW_CONTROL_ERROR whenever the frame
\* breaks a flow-control limit of its stream, and no error changes any state
FrameFlowControlAlways ==
    [][last'.op = "received" =>
          /\ \A id \in RecvIds, offset \in 0..VarIntMax, len \in 0..MaxWrite,
                fin \in BOOLEAN :
                /\ offset + len <= Pow62
                /\ id \in DOMAIN recv
                /\ FlowViolation(id, offset, len)
                /\ Received(id, offset, len, fin)
                => last'.res = "FLOW_CONTROL_ERROR"
          /\ ErrorChangesNothing]_vars

\* C17, amended: for a frame on a stream that is in the recv map and still in
\* Recv, received returns FLOW_CONTROL_ERROR when the frame ends at or beyond
\* 2^62, or when it does not conflict with a known final size and breaks the
\* stream's or the connection's limit; a frame that conflicts with the final
\* size returns FINAL_SIZE_ERROR first, and a frame for a stream that was
\* reset is dropped with Ok.  The sums the call computes do not overflow, and
\* no error changes any state
FrameFlowControl ==
    [][last'.op = "received" =>
          /\ \A id \in RecvIds, offset \in 0..VarIntMax, len \in 0..MaxWrite,
                fin \in BOOLEAN :
                /\ offset + len <= Pow62
                /\ id \in DOMAIN recv
                /\ FlowViolation(id, offset, len)
                /\ Received(id, offset, len, fin)
                => /\ recv[id].assembler.bytes_read + stream_receive_window <= U64Max
                   /\ data_recvd + offset + len <= U64Max
                   /\ last'.res =
                         (IF RecvIsFinished(recv[id]) THEN "Ok"
                          ELSE IF offset + len >= Pow62 THEN "FLOW_CONTROL_ERROR"
                          ELSE IF FinalSizeConflict(id, offset, len, fin)
                          THEN "FINAL_SIZE_ERROR"
                          ELSE "FLOW_CONTROL_ERROR")
          /\ ErrorChangesNothing]_vars
\* a frame has just been refused while the connection's window is used up
\* and the stream is still in Recv with no final size
FrameFlowControlWitness ==
    /\ last = Called("received", LocalBi0, NoDir, "FLOW_CONTROL_ERROR", NoVal)
    /\ LocalBi0 \in DOMAIN recv
    /\ RecvReceivingUnknownSize(recv[LocalBi0])
    /\ data_recvd = local_max_data
    /\ data_recvd = 2

\* the final size of stream id is known
FinalSizeKnown(id) == RecvFinalOffset(recv[id]) # NoVal
\* a received stream frame that contradicts the final size, or a FIN below
\* the highest offset received, returns FINAL_SIZE_ERROR
FrameFinalSizeChecked(live) ==
    last'.op = "received" =>
        \A id \in RecvIds, offset \in 0..VarIntMax, len \in 0..MaxWrite, fin \in BOOLEAN :
            /\ offset + len <= Pow62
            /\ id \in DOMAIN recv
            /\ live => (recv[id].state = "Recv" /\ offset + len < Pow62)
            /\ \/ FinalSizeConflict(id, offset, len, fin)
               \/ fin /\ offset + len < recv[id].assembler.end
            /\ Received(id, offset, len, fin)
            => last'.res = "FINAL_SIZE_ERROR"
\* a reset whose final_offset differs from the known final size, or lies
\* below the highest offset received, returns FINAL_SIZE_ERROR
ResetFinalSizeChecked ==
    last'.op = "received_reset" =>
        \A id \in RecvIds, c \in Codes, final_offset \in 0..VarIntMax :
            /\ id \in DOMAIN recv
            /\ \/ FinalSizeKnown(id) /\ final_offset # RecvFinalOffset(recv[id])
               \/ final_offset < recv[id].assembler.end
            /\ ReceivedReset(id, c, final_offset)
            => last'.res = "FINAL_SIZE_ERROR"
\* the final size of a stream that stays in the map does not change
FinalSizeKept ==
    last'.op # "zero_rtt_rejected" =>
        \A id \in DOMAIN recv \cap DOMAIN recv' :
            FinalSizeKnown(id) => RecvFinalOffset(recv'[id]) = RecvFinalOffset(recv[id])
\* C18: once the final size of a receive stream is known, a frame extending
\* past it, a FIN ending elsewhere and a reset with another final_offset
\* return FINAL_SIZE_ERROR; a FIN or a reset whose final size is below the
\* highest offset received returns FINAL_SIZE_ERROR; and the recorded final
\* size never changes
FinalSizeConsistent ==
    [][FrameFinalSizeChecked(FALSE) /\ ResetFinalSizeChecked /\ FinalSizeKept]_vars
\* C18, the part about stream frames, for a stream still in Recv and a frame
\* that ends below 2^62: a frame that contradicts the known final size, or a
\* FIN that ends below the highest offset received, returns FINAL_SIZE_ERROR
FinalSizeFrames == [][FrameFinalSizeChecked(TRUE)]_vars
\* the recorded final size is never below the highest offset received
FinalSizeCoversEnd ==
    \A id \in DOMAIN recv :
        FinalSizeKnown(id) => recv[id].assembler.end <= RecvFinalOffset(recv[id])
\* a frame on a stream in Recv that contradicts the known final size returns
\* FINAL_SIZE_ERROR
KnownFinalSizeFrames ==
    last'.op = "received" =>
        \A id \in RecvIds, offset \in 0..VarIntMax, len \in 0..MaxWrite, fin \in BOOLEAN :
            /\ offset + len < Pow62
            /\ id \in DOMAIN recv
            /\ recv[id].state = "Recv"
            /\ FinalSizeConflict(id, offset, len, fin)
            /\ Received(id, offset, len, fin)
            => last'.res = "FINAL_SIZE_ERROR"
\* a reset that contradicts the known final size, or that lies below the
\* highest offset received when no final size is known, returns
\* FINAL_SIZE_ERROR
KnownFinalSizeResets ==
    last'.op = "received_reset" =>
        \A id \in RecvIds, c \in Codes, final_offset \in 0..VarIntMax :
            /\ id \in DOMAIN recv
            /\ \/ FinalSizeKnown(id) /\ final_offset # RecvFinalOffset(recv[id])
               \/ ~FinalSizeKnown(id) /\ final_offset < recv[id].assembler.end
            /\ ReceivedReset(id, c, final_offset)
            => last'.res = "FINAL_SIZE_ERROR"
\* C18 without the FIN that shrinks the stream: what is checked once the
\* final size is known, and the recorded size does not change
FinalSizeOnceKnown == [][KnownFinalSizeFrames /\ KnownFinalSizeResets /\ FinalSizeKept]_vars

\* a first reset of stream id, not stopped, that is accepted: data_recvd grows
\* by final_offset minus the highest offset received and local_max_data by
\* final_offset - bytes_read (add_read_credits saturates)
ResetCreditStep(sound) ==
    last'.op = "received_reset" /\ last'.res = "Ok" =>
        \A id \in RecvIds, c \in Codes, final_offset \in 0..VarIntMax :
            /\ id \in DOMAIN recv
            /\ recv[id].state = "Recv"
            /\ ~recv[id].assembler.stopped
            /\ sound => (FinalSizeKnown(id) =>
                            recv[id].assembler.end <= RecvFinalOffset(recv[id]))
            /\ ReceivedReset(id, c, final_offset)
            => /\ final_offset >= recv[id].assembler.end
               /\ final_offset >= recv[id].assembler.bytes_read
               /\ data_recvd' = data_recvd + (final_offset - recv[id].assembler.end)
               /\ local_max_data' =
                     Min(local_max_data + (final_offset - recv[id].assembler.bytes_read),
                         U64Max)
\* C19: after a first successful received_reset(id, final_offset) on a stream
\* that was not stopped, data_recvd has grown by final_offset minus the
\* stream's highest received offset and local_max_data by
\* final_offset - bytes_read
ResetCredit == [][ResetCreditStep(FALSE)]_vars
\* C19 for streams whose known final size is not below the highest offset
\* received
ResetCreditSound == [][ResetCreditStep(TRUE)]_vars

ResetRemovedWitness ==
    /\ last = Called("received_reset", LocalBi0, NoDir, "Ok", 0)
    /\ LocalBi0 \notin DOMAIN recv
    /\ next["Bi"] = 1
    /\ data_recvd > 0

\* a stream frame accepted on a stopped stream counts its new bytes in
\* data_recvd, credits them to local_max_data in the same call, queues no
\* event, and removes the stream when it carries FIN
StoppedFrameStep ==
    last'.op = "received" /\ last'.res = "Ok" =>
        \A id \in RecvIds, offset \in 0..VarIntMax, len \in 0..MaxWrite, fin \in BOOLEAN :
            /\ offset + len <= Pow62
            /\ id \in DOMAIN recv
            /\ recv[id].state = "Recv"
            /\ recv[id].assembler.stopped
            /\ Received(id, offset, len, fin)
            => LET new_bytes == Max(offset + len - recv[id].assembler.end, 0) IN
               /\ data_recvd' = data_recvd + new_bytes
               /\ local_max_data' = Min(local_max_data + new_bytes, U64Max)
               /\ last'.val = (IF AddReadCredits(new_bytes).transmit THEN 1 ELSE 0)
               /\ events' = events
               /\ fin => id \notin DOMAIN recv'
               /\ ~fin => id \in DOMAIN recv' /\ recv'[id].assembler.stopped
\* a reset accepted on a stopped stream removes the stream and queues no event
StoppedResetStep(first) ==
    last'.op = "received_reset" /\ last'.res = "Ok" =>
        \A id \in RecvIds, c \in Codes, final_offset \in 0..VarIntMax :
            /\ id \in DOMAIN recv
            /\ recv[id].assembler.stopped
            /\ first => recv[id].state = "Recv"
            /\ ReceivedReset(id, c, final_offset)
            => id \notin DOMAIN recv' /\ events' = events
\* C21: on a stopped receive stream every accepted stream frame is counted in
\* data_recvd and its new bytes are credited to local_max_data by the same
\* call, with no Readable event; a frame carrying FIN, or a reset frame,
\* removes the recv entry at once
StoppedFrames == [][StoppedFrameStep /\ StoppedResetStep(FALSE)]_vars
\* C21 for a reset frame that finds the stopped stream still in Recv
StoppedFramesFirstReset == [][StoppedFrameStep /\ StoppedResetStep(TRUE)]_vars

\* stream id is in the recv map, still in Recv and not stopped
Receiving(id) ==
    id \in DOMAIN recv /\ recv[id].state = "Recv" /\ ~recv[id].assembler.stopped
\* the frame on stream id is the first sign of a peer-initiated stream
OpensStream(id) == Initiator(id) # side /\ Index(id) >= next_remote[IdDir(id)]
ReadableQueued(id) == events' = Append(events, Ev("Readable", id, NoDir, NoCode))
\* what an accepted frame on a receiving stream announces
FrameAnnounced(always) ==
    last'.op = "received" /\ last'.res = "Ok" =>
        \A id \in ReadableIds, fin \in BOOLEAN :
            Receiving(id) /\ Received(id, 0, 0, fin)
            => IF always \/ ~OpensStream(id)
               THEN ReadableQueued(id)
               ELSE /\ events' = events
                    /\ opened'[IdDir(id)]
                    /\ next_remote'[IdDir(id)] = Index(id) + 1
\* a queued Readable{id} is returned by a later poll
ReadableDelivered ==
    \A id \in ReadableIds :
        (Ev("Readable", id, NoDir, NoCode) \in Range(events))
            ~> (last = Called("poll", id, NoDir, "Readable", NoCode))
\* C22 as stated: every stream frame accepted for a receive stream that is
\* not stopped and not finished enqueues Readable{id}, on peer-initiated and
\* locally-initiated streams alike, and a later poll returns it
ReadableAlways == [][FrameAnnounced(TRUE)]_vars /\ ReadableDelivered
\* C22, amended: every stream frame accepted for a receive stream that is not
\* stopped and not finished enqueues Readable{id}, unless the stream is
\* peer-initiated and its index is not below next_remote: that frame raises
\* next_remote to index + 1 and sets opened[dir] instead and queues no event.
\* A queued Readable{id} is returned by a later poll
ReadableUnlessOpening == [][FrameAnnounced(FALSE)]_vars /\ ReadableDelivered
\* a frame on a peer-initiated stream already announced has queued Readable
ReadableWitness ==
    /\ last = Called("received", NewId("Server", "Uni", 0), NoDir, "Ok", 0)
    /\ events = <<Ev("Readable", NewId("Server", "Uni", 0), NoDir, NoCode)>>
    /\ next_remote["Uni"] = 2
\* a frame on the second peer-initiated stream has announced two streams at
\* once and queued nothing
OpeningFrameWitness ==
    /\ last = Called("received", NewId("Server", "Uni", 1), NoDir, "Ok", 0)
    /\ events = <<>>
    /\ opened["Uni"]
    /\ next_remote["Uni"] = 2
    /\ next_reported_remote["Uni"] = 0

\* the ids for which the claim expects STREAM_STATE_ERROR: a peer-initiated
\* Uni stream, or a stream of this side that was never opened
RecvOnlyOrUnopened(id) ==
    \/ Initiator(id) # side /\ IdDir(id) = "Uni"
    \/ Initiator(id) = side /\ Index(id) >= next[IdDir(id)]
\* received_max_stream_data raises the limit of stream id to offset and
\* queues Writable{id} exactly when the stream had written up to its old limit
LimitRaised(id, offset) ==
    /\ send' = [send EXCEPT ![id].max_data = offset]
    /\ events' = IF SendOffset(send[id]) = send[id].max_data
                 THEN Append(events, Ev("Writable", id, NoDir, NoCode))
                 ELSE events
\* everything but the send map, the events queue and the announcement of
\* peer-initiated streams is unchanged
OnlyLimitChanges ==
    UNCHANGED <<side, recv, next, max, max_remote, next_reported_remote, send_streams,
                pending, connection_blocked, max_data, receive_window, local_max_data,
                sent_max_data, data_sent, data_recvd, unacked_data, send_window,
                stream_receive_window, inflight>>
\* the call announces a peer-initiated stream it is the first frame of
StreamAnnounced(id) ==
    IF Initiator(id) # side /\ Index(id) >= next_remote[IdDir(id)]
    THEN /\ next_remote' = [next_remote EXCEPT ![IdDir(id)] = Index(id) + 1]
         /\ opened' = [opened EXCEPT ![IdDir(id)] = TRUE]
    ELSE UNCHANGED <<next_remote, opened>>
\* C23 as stated: received_max_stream_data(id, offset) returns
\* STREAM_STATE_ERROR, changing no state, for a peer-initiated Uni stream or
\* a local stream never opened; otherwise an offset above the stream's limit
\* becomes the limit, with Writable{id} exactly when the stream had written
\* up to its old limit, and an offset not above the limit changes nothing
MaxStreamDataAsStated ==
    [][last'.op = "received_max_stream_data" =>
          \A id \in MaxStreamDataIds, offset \in 0..1 :
              ReceivedMaxStreamData(id, offset) =>
                  IF RecvOnlyOrUnopened(id)
                  THEN last'.res = "STREAM_STATE_ERROR" /\ NothingChanges
                  ELSE /\ last'.res = "Ok"
                       /\ IF id \in DOMAIN send /\ offset > send[id].max_data
                          THEN LimitRaised(id, offset) /\ OnlyLimitChanges
                          ELSE NothingChanges]_vars
\* C23, amended: STREAM_STATE_ERROR, changing no state, for a peer-initiated
\* Uni stream or a local stream never opened; otherwise Ok, and an offset
\* above the limit of a stream in Ready becomes the limit, with Writable{id}
\* exactly when the stream had written up to its old limit; a stream that is
\* not in Ready, or an offset not above the limit, leaves the send map and the
\* events queue alone; and every call that returns Ok on a peer-initiated
\* stream whose index is not below next_remote raises next_remote to
\* index + 1 and sets opened[dir]
MaxStreamDataContract ==
    [][last'.op = "received_max_stream_data" =>
          \A id \in MaxStreamDataIds, offset \in 0..1 :
              ReceivedMaxStreamData(id, offset) =>
                  IF RecvOnlyOrUnopened(id)
                  THEN last'.res = "STREAM_STATE_ERROR" /\ NothingChanges
                  ELSE /\ last'.res = "Ok"
                       /\ IF /\ id \in DOMAIN send
                             /\ offset > send[id].max_data
                             /\ send[id].state = "Ready"
                          THEN LimitRaised(id, offset)
                          ELSE UNCHANGED <<send, events>>
                       /\ StreamAnnounced(id)
                       /\ OnlyLimitChanges]_vars
\* a MAX_STREAM_DATA frame has just raised the limit of a stream that had
\* written up to it, and Writable is queued
MaxStreamDataWitness ==
    /\ last = Called("received_max_stream_data", PeerBi0, NoDir, "Ok", 1)
    /\ PeerBi0 \in DOMAIN send
    /\ send[PeerBi0].max_data = 1
    /\ next_remote["Bi"] = 1
    /\ events = <<Ev("Writable", PeerBi0, NoDir, NoCode)>>
\* a MAX_STREAM_DATA frame above the limit has just been ignored for a stream
\* that has finished
MaxStreamDataFinishedWitness ==
    /\ last = Called("received_max_stream_data", PeerBi0, NoDir, "Ok", 1)
    /\ PeerBi0 \in DOMAIN send
    /\ send[PeerBi0].state = "DataSent"
    /\ send[PeerBi0].max_data = 0

\* received_stop_sending on a stream with a send entry records the code and
\* queues Stopped{id, code}; without a send entry it changes nothing
StopSendingStep(scheduled) ==
    last'.op = "received_stop_sending" =>
        \A id \in SendIds, c \in Codes :
            ReceivedStopSending(id, c) =>
                IF id \in DOMAIN send
                THEN /\ send' = [send EXCEPT ![id].stop_reason = c]
                     /\ events' = Append(events, Ev("Stopped", id, NoDir, c))
                     /\ IF scheduled
                        THEN /\ id \in Range(pending')
                             /\ id \in Range(pending) => pending' = pending
                        ELSE pending' = pending
                ELSE NothingChanges
\* once set, the stop_reason of a stream stays set as long as its entry exists
StopReasonLatched ==
    \A id \in DOMAIN send \cap DOMAIN send' :
        send[id].stop_reason # NoCode => send'[id].stop_reason # NoCode
ReachesDataRecvd(frame) ==
    /\ frame.id \in DOMAIN send
    /\ send[frame.id].state = "DataSent"
    /\ send[frame.id].finish_acked \/ frame.fin
    /\ SBIsFullyAcked(SBAck(send[frame.id].pending, frame.start, frame.end))
\* Finished{id} is appended to the events queue
FinishedQueued(id) == events' = Append(events, Ev("Finished", id, NoDir, NoCode))
\* an acknowledgement that takes a stream to DataRecvd queues Finished{id},
\* removes the send entry and decrements send_streams; no other
\* acknowledgement queues an event or removes an entry
AckFinishes ==
    \A frame \in inflight :
        ReceivedAckOf(frame) =>
            IF ReachesDataRecvd(frame)
            THEN /\ FinishedQueued(frame.id)
                 /\ send' = Drop(send, frame.id)
                 /\ send_streams >= 1
                 /\ send_streams' = send_streams - 1
            ELSE UNCHANGED <<events, send_streams>> /\ DOMAIN send' = DOMAIN send
\* a Finished event enters the queue only for a stream that leaves the send
\* map in that step from DataSent
FinishedOnlyThen ==
    \A i \in 1..Len(events') :
        (events'[i].type = "Finished" /\ (i > Len(events) \/ events[i] # events'[i]))
            => /\ events'[i].id \in DOMAIN send
               /\ send[events'[i].id].state = "DataSent"
               /\ events'[i].id \notin DOMAIN send'
\* C25: Finished{id} is enqueued exactly when the acknowledgement of a frame
\* takes the send stream to DataRecvd (finish succeeded, a FIN acknowledged,
\* every written byte acknowledged); in that step the send entry is removed
\* and send_streams is decremented; Finished is never queued for a stream that
\* was reset, nor twice for one entry
FinishedContract == [][AckFinishes /\ FinishedOnlyThen]_vars
\* C25 without the count of send_streams
FinishedEvents ==
    [][/\ \A frame \in inflight :
             ReceivedAckOf(frame) =>
                 IF ReachesDataRecvd(frame)
                 THEN FinishedQueued(frame.id) /\ send' = Drop(send, frame.id)
                 ELSE UNCHANGED events /\ DOMAIN send' = DOMAIN send
       /\ FinishedOnlyThen]_vars

\* the state zero_rtt_rejected leaves: no stream of this side in either map,
\* next at 0, pending and connection_blocked empty, data_sent at 0, and the
\* peer-initiated streams and the receive-side counters as they were
ZeroRttPost ==
    /\ \A id \in DOMAIN send' \cup DOMAIN recv' : Initiator(id) # side
    /\ next' = [d \in Dirs |-> 0]
    /\ pending' = <<>>
    /\ connection_blocked' = <<>>
    /\ data_sent' = 0
    /\ \A id \in DOMAIN send :
          Initiator(id) # side => id \in DOMAIN send' /\ send'[id] = send[id]
    /\ \A id \in DOMAIN recv :
          Initiator(id) # side => id \in DOMAIN recv' /\ recv'[id] = recv[id]
    /\ UNCHANGED <<data_recvd, local_max_data, next_remote, max_remote>>
\* C26: after zero_rtt_rejected no locally-initiated stream remains in the
\* send or recv map, next[dir] = 0 for both directions, pending and
\* connection_blocked are empty and data_sent = 0; the peer-initiated streams
\* and data_recvd, local_max_data, next_remote and max_remote are unchanged
ZeroRttReverts == [][last'.op = "zero_rtt_rejected" /\ ZeroRttRejected => ZeroRttPost]_vars
\* zero_rtt_rejected has just removed the client's two streams, which had
\* been opened, and kept the peer's stream with the byte written to it and
\* the byte received on it
ZeroRttRevertsWitness ==
    /\ last = Called("zero_rtt_rejected", NoVal, NoDir, "Ok", NoVal)
    /\ send_streams = 2
    /\ DOMAIN send = {PeerBi0}
    /\ DOMAIN recv = {PeerBi0}
    /\ SendOffset(send[PeerBi0]) = 1
    /\ recv[PeerBi0].assembler.end = 1
    /\ data_recvd = 1
    /\ data_sent = 0

\* zero_rtt_rejected returns: every stream this side opened still has the
\* entries that the call removes and unwraps
ZeroRttRejectedReturns ==
    \A id \in LocalOpened(side) :
        id \in DOMAIN send /\ (IdDir(id) = "Bi" => id \in DOMAIN recv)

\* the positions of connection_blocked that hold a stream that is still
\* writable
Unblockable ==
    {i \in 1..Len(connection_blocked) :
        /\ connection_blocked[i] \in DOMAIN send
        /\ SendIsWritable(send[connection_blocked[i]])}
\* what poll returns and consumes, in the order of its three sources
PollStep ==
    last'.op = "poll" /\ Poll =>
        IF \E d \in Dirs : opened[d]
        THEN /\ last'.res = "Opened"
             /\ opened[last'.dir]
             /\ opened' = [opened EXCEPT ![last'.dir] = FALSE]
             /\ UNCHANGED <<events, connection_blocked, send>>
        ELSE IF ~FlowBlocked /\ Unblockable # {}
        THEN LET i == CHOOSE j \in Unblockable : \A k \in Unblockable : k <= j IN
             /\ last' = Called("poll", connection_blocked[i], NoDir, "Writable", NoVal)
             /\ connection_blocked' = SubSeq(connection_blocked, 1, i - 1)
             /\ ~send'[connection_blocked[i]].connection_blocked
             /\ UNCHANGED <<events, opened>>
        ELSE IF events # <<>>
        THEN /\ last' = Called("poll", Head(events).id, Head(events).dir,
                               Head(events).type, Head(events).code)
             /\ events' = Tail(events)
             /\ UNCHANGED opened
        ELSE /\ last' = Called("poll", NoVal, NoDir, "None", NoVal)
             /\ UNCHANGED <<events, opened>>
\* the events queue only grows at the back and only shrinks at the front, by
\* a poll
EventsFifo ==
    \/ /\ Len(events') >= Len(events)
       /\ SubSeq(events', 1, Len(events)) = events
    \/ /\ last'.op = "poll"
       /\ events # <<>>
       /\ events' = Tail(events)
\* an opened flag is set only by a frame that raises next_remote
OpenedSetByNewStream ==
    \A d \in Dirs : ~opened[d] /\ opened'[d] => next_remote'[d] > next_remote[d]
\* C27: poll returns Opened{dir} for a direction whose flag is set, consuming
\* the flag, which only a newly opened peer stream sets again; else
\* Writable{id} for one stream taken from connection_blocked when the
\* connection is no longer blocked and the stream is still writable; else the
\* oldest queued event; queued events leave the queue in the order they
\* entered it, none lost or duplicated
PollPriority == [][PollStep /\ EventsFifo /\ OpenedSetByNewStream]_vars
\* poll has just returned the older of two queued events and the younger one
\* is still queued
PollPriorityWitness ==
    /\ last = Called("poll", PeerBi0, NoDir, "Stopped", 0)
    /\ events = <<Ev("Readable", PeerBi0, NoDir, NoCode)>>
\* poll has just returned Writable for the unblocked stream while an event is
\* queued
PollWritableFirstWitness ==
    /\ last = Called("poll", PeerBi0, NoDir, "Writable", NoVal)
    /\ events # <<>>
    /\ connection_blocked = <<>>
\* poll has just returned Opened while an event is queued
PollOpenedFirstWitness ==
    /\ last.op = "poll" /\ last.res = "Opened"
    /\ events # <<>>
\* poll has just returned Writable for the stream blocked last, and the
\* stream blocked first is still on the list
PollOneUnblockedWitness ==
    /\ last.op = "poll" /\ last.res = "Writable"
    /\ Len(connection_blocked) = 1
    /\ connection_blocked[1] # last.id
    /\ connection_blocked[1] \in DOMAIN send
    /\ send[connection_blocked[1]].connection_blocked


\* ---- C28 ----
\* the stream at the front of pending is live: write_stream_frames emits a
\* frame for it
ServedFront(a) ==
    /\ pending # <<>>
    /\ a = Head(pending)
    /\ a \in DOMAIN send
    /\ ~SendIsReset(send[a])

\* C28, the rule for one pop: a call with room for a single frame pops the
\* front stream, emits at most one frame, all of it for that stream, and
\* appends the stream again iff it still has unsent data or a FIN to send
RoundRobinPop ==
    [][\A a \in RoundRobinIds :
          ServedFront(a) /\ WriteStreamFrames(StreamSizeBound + 1)
          => /\ Cardinality(inflight' \ inflight) <= 1
             /\ \A f \in inflight' \ inflight : f.id = a
             /\ pending' = IF SendIsPending(send'[a])
                           THEN Append(Tail(pending), a)
                           ELSE Tail(pending)]_vars

\* C28: write_stream_frames serves pending round-robin: once the front stream
\* has had its frame, another stream that waits in pending with data or a FIN
\* to send is served next, so that two busy streams get their frames alternately
RoundRobinTurns ==
    [][\A a \in RoundRobinIds : \A b \in RoundRobinIds \ {a} :
          /\ ServedFront(a)
          /\ b \in Range(pending) /\ b \in DOMAIN send /\ SendIsPending(send[b])
          /\ WriteStreamFrames(StreamSizeBound + 1)
          => Head(pending') = b]_vars

\* a stream was served while the other one waited with data
RoundRobinWitness ==
    /\ \E f \in inflight : f.end > f.start
    /\ \E b \in RoundRobinIds : b \in Range(pending) /\ b \in DOMAIN send
                                /\ SBHasUnsentData(send[b].pending)

\* a stream occurs twice in pending
PendingTwice == \E i, j \in DOMAIN pending : i < j /\ pending[i] = pending[j]


\* ---- C29 ----
\* the stream has a send entry that is not reset
SendLive(id) == id \in DOMAIN send /\ ~SendIsReset(send[id])
\* what unacked_data holds besides the stream's written and unacknowledged bytes
UnackedBaseline(id) == unacked_data - SBUnacked(send[id].pending)
\* the step is the acknowledgement that completes the stream
CompletedByAck(id) ==
    /\ \E f \in inflight : f.id = id /\ inflight' = inflight \ {f}
    /\ events' = Append(events, Ev("Finished", id, NoDir, NoCode))

\* C29: for a stream that is not reset, unacked_data moves with the stream's
\* written and unacknowledged bytes: every step that keeps the stream keeps
\* the value unacked_data has besides them, whether it writes, transmits,
\* acknowledges or retransmits, and the acknowledgement that completes the
\* stream leaves exactly that value; so once everything written is
\* acknowledged unacked_data is back at its value before the writes
AckRoundTrip ==
    [][\A id \in SendIds :
          SendLive(id)
          => IF id \in DOMAIN send'
             THEN SendIsReset(send'[id]) \/ UnackedBaseline(id)' = UnackedBaseline(id)
             ELSE CompletedByAck(id) => unacked_data' = UnackedBaseline(id)]_vars

\* two bytes written, transmitted and acknowledged on a stream that is not
\* reset, and unacked_data is back at zero
AckRoundTripWitness ==
    \E id \in SendIds :
        /\ SendLive(id)
        /\ send[id].pending.offset = MaxOffset
        /\ SBIsFullyAcked(send[id].pending)
        /\ send[id].pending.unsent = MaxOffset
        /\ unacked_data = 0

\* a transmitted byte was lost and waits for its retransmission, still counted
AckLossWitness ==
    \E id \in SendIds :
        /\ SendLive(id)
        /\ send[id].pending.retransmits # <<>>
        /\ inflight = {}
        /\ unacked_data = SBUnacked(send[id].pending)
        /\ unacked_data > 0

\* the acknowledgement that completes a stream with a byte written
AckCompletesWitness ==
    /\ send = << >>
    /\ unacked_data = 0
    /\ data_sent > 0
    /\ \E e \in Range(events) : e.type = "Finished"


\* ---- C30 ----
\* the bytes the application has been handed from the stream so far
BytesRead(rcv, id) == rcv[id].assembler.bytes_read
\* the step is a call of read or read_unordered
ReadCall == last'.op \in {"read", "read_unordered"}

\* C30: a read or read_unordered that delivers k > 0 bytes raises
\* local_max_data by exactly k, saturating at the u64 maximum, and a read that
\* returns Blocked, the end of the stream or an error leaves local_max_data
\* as it is
ReadCredits ==
    [][ReadCall
       => IF last'.res = "Some"
          THEN /\ last'.val > 0
               /\ last'.id \in DOMAIN recv /\ last'.id \in DOMAIN recv'
               /\ BytesRead(recv', last'.id) = BytesRead(recv, last'.id) + last'.val
               /\ local_max_data' = SatAdd(local_max_data, last'.val)
          ELSE /\ last'.res \in {"None", "Blocked", "Reset", "UnknownStream",
                                 "IllegalOrderedRead"}
               /\ local_max_data' = local_max_data]_vars

\* an ordered read has delivered a byte and issued one credit
ReadCreditsWitness ==
    /\ last.op = "read" /\ last.res = "Some" /\ last.val = 1
    /\ local_max_data = receive_window + 1

\* an ordered read has delivered two bytes at once
ReadTwoWitness ==
    /\ last.op = "read" /\ last.res = "Some" /\ last.val = 2

\* an unordered read has delivered a byte that was not the next in order
ReadUnorderedCreditsWitness ==
    /\ last.op = "read_unordered" /\ last.res = "Some"
    /\ last.id \in DOMAIN recv
    /\ recv[last.id].assembler.unordered
    /\ 0 \notin recv[last.id].assembler.recvd

\* a read that returned Blocked with a byte buffered out of order
ReadBlockedWitness ==
    /\ last.op = "read" /\ last.res = "Blocked"
    /\ last.id \in DOMAIN recv
    /\ recv[last.id].assembler.buf # {}
    /\ local_max_data = receive_window


\* a read has delivered bytes with local_max_data at the u64 maximum
ReadSaturatedWitness ==
    /\ last.op \in {"read", "read_unordered"} /\ last.res = "Some"
    /\ local_max_data = U64Max


\* ---- C31 ----
\* the result the claim gives for the id of a received frame; Pass stands
\* for every id that is not rejected
ReceiveIdVerdict(id) ==
    IF Initiator(id) = side
    THEN IF IdDir(id) = "Uni" \/ Index(id) >= next["Bi"]
         THEN "STREAM_STATE_ERROR" ELSE "Pass"
    ELSE IF Index(id) >= max_remote[IdDir(id)] THEN "STREAM_LIMIT_ERROR" ELSE "Pass"
IdErrors == {"STREAM_STATE_ERROR", "STREAM_LIMIT_ERROR"}

\* C31: a STREAM or RESET_STREAM frame is rejected with STREAM_STATE_ERROR on
\* a Uni stream of this side or on a Bi stream of this side that was never
\* opened, with STREAM_LIMIT_ERROR on a peer stream at or above max_remote,
\* every other id passes, and a rejected frame changes no state
ReceiveIdValidated ==
    [][last'.op \in {"received", "received_reset"}
       => /\ IF ReceiveIdVerdict(last'.id) = "Pass"
             THEN last'.res \notin IdErrors
             ELSE last'.res = ReceiveIdVerdict(last'.id)
          /\ last'.res \in IdErrors => NothingChanges]_vars

\* a frame on this side's Bi stream 1 was rejected while its Bi stream 0,
\* which is open, exists
ReceiveIdValidatedWitness ==
    /\ last.op = "received" /\ last.res = "STREAM_STATE_ERROR"
    /\ last.id = NewId(side, "Bi", 1)
    /\ next["Bi"] = 1
\* a reset on the peer's Uni stream 1 was rejected with the limit at 1
ReceiveIdLimitWitness ==
    /\ last.op = "received_reset" /\ last.res = "STREAM_LIMIT_ERROR"
    /\ last.id = NewId(Other(side), "Uni", 1)
    /\ max_remote["Uni"] = 1
\* a frame on this side's own Uni stream was rejected
ReceiveIdSendOnlyWitness ==
    /\ last.op = "received" /\ last.res = "STREAM_STATE_ERROR"
    /\ Initiator(last.id) = side /\ IdDir(last.id) = "Uni"
\* frames passed on this side's opened Bi stream and on a peer's stream
\* below the limit
ReceiveIdPassWitness ==
    /\ last.op = "received" /\ last.res = "Ok"
    /\ last.id = NewId(Other(side), "Bi", 0)
    /\ NewId(side, "Bi", 0) \in DOMAIN recv
    /\ recv[NewId(side, "Bi", 0)].state # "Recv"


\* ---- C32 ----
\* C32: the id made by StreamId::new(side, dir, index) has initiator() = side
\* and dir() = dir for every index, and index() = index for every index
\* below 2^60, that is, one that leaves four bits of the integer free
StreamIdRoundTrip ==
    last.op = "stream_id"
    => /\ Initiator(last.id) = last.res
       /\ IdDir(last.id) = last.dir
       /\ last.val < 2 ^ (IdBits - 4) => Index(last.id) = last.val

\* an id made from an index with its highest bit set: side and
\* directionality came back, the index did not
StreamIdRoundTripWitness ==
    /\ last.op = "stream_id"
    /\ last.val >= 2 ^ (IdBits - 1)
    /\ last.res = "Server" /\ last.dir = "Uni"
    /\ Initiator(last.id) = "Server" /\ IdDir(last.id) = "Uni"
    /\ Index(last.id) # last.val
\* the largest index below 2^60 came back
StreamIdIndexWitness ==
    /\ last.op = "stream_id"
    /\ last.val = 2 ^ (IdBits - 4) - 1
    /\ Index(last.id) = last.val


\* ---- C33 ----
\* the peer has finished or reset the stream: its final size is known
FinalSizeIsKnown(r) == r.state = "ResetRecvd" \/ (r.state = "Recv" /\ r.size # NoVal)

\* C33: a stopped receive stream is kept only until its FIN or reset has
\* been received: no entry of the recv map is stopped with its final size
\* known, also when stop is called after the FIN arrived
StoppedKeptUntilFinal ==
    \A id \in DOMAIN recv : ~(recv[id].assembler.stopped /\ FinalSizeIsKnown(recv[id]))

\* a stopped stream that waits for its final size is in the map
StoppedWaitingWitness ==
    \E id \in DOMAIN recv : recv[id].assembler.stopped /\ ~FinalSizeIsKnown(recv[id])

\* C33, for a stream that was stopped before its final size was known: the
\* frame or reset that makes the final size known removes the entry in the
\* same step
StoppedThenFinalRemoved ==
    [][\A id \in DOMAIN recv :
          recv[id].assembler.stopped /\ ~FinalSizeIsKnown(recv[id])
          => \/ id \notin DOMAIN recv'
             \/ (recv'[id].assembler.stopped /\ ~FinalSizeIsKnown(recv'[id]))]_vars


\* ---- C34 ----
\* the frames a step has emitted
Emitted == inflight' \ inflight
\* the FIN rule for one emitted frame, against the stream as it was when the
\* call began (write_stream_frames changes neither its offset nor its state)
FinRule(f) ==
    /\ f.id \in DOMAIN send /\ f.id \in DOMAIN send'
    /\ f.fin <=> (f.end = SendOffset(send[f.id]) /\ send[f.id].state = "DataSent")
    /\ f.fin => ~send'[f.id].fin_pending
\* a call with room for one frame serves a finished stream that has nothing
\* but its FIN to send: it emits the empty frame with FIN
EmptyFinFrame(a) ==
    /\ ServedFront(a)
    /\ send[a].state = "DataSent" /\ send[a].fin_pending
    /\ ~SBHasUnsentData(send[a].pending)
    /\ WriteStreamFrames(StreamSizeBound + 1)
    => /\ [id |-> a, start |-> SendOffset(send[a]), end |-> SendOffset(send[a]),
           fin |-> TRUE] \in inflight'
       /\ ~send'[a].fin_pending

FinWithDataWitness ==
    \E f \in inflight : f.fin /\ f.start < f.end /\ f.id \in DOMAIN send
\* a frame that ends at the write offset of a stream in Ready: no FIN
NoFinInReadyWitness ==
    \E f \in inflight :
        /\ ~f.fin /\ f.start < f.end
        /\ f.id \in DOMAIN send /\ send[f.id].state = "Ready"
        /\ f.end = SendOffset(send[f.id])


\* ---- C35 ----
\* the byte offsets that wait in the stream's retransmit queue
RECURSIVE RangesCover(_)
RangesCover(q) == IF q = <<>> THEN {} ELSE (Head(q)[1]..(Head(q)[2] - 1)) \cup RangesCover(Tail(q))
LostBytes(s) == RangesCover(s.pending.retransmits)

\* what retransmit(frame) does; scheduled says which streams it leaves in
\* the pending queue
RetransmitStep(frame, scheduled(_)) ==
    IF frame.id \in DOMAIN send
    THEN /\ DOMAIN send' = DOMAIN send
         /\ LostBytes(send'[frame.id]) = LostBytes(send[frame.id]) \cup (frame.start..(frame.end - 1))
         /\ send'[frame.id].fin_pending = (send[frame.id].fin_pending \/ frame.fin)
         /\ send' = [send EXCEPT ![frame.id].pending.retransmits = send'[frame.id].pending.retransmits,
                                 ![frame.id].fin_pending = send'[frame.id].fin_pending]
         /\ scheduled(send[frame.id]) => frame.id \in Range(pending')
         /\ \/ pending' = pending
            \/ pending' = Append(pending, frame.id)
         /\ UNCHANGED <<config, counters, sendflow, recvflow, recv, send_streams, events,
                        connection_blocked>>
    ELSE UNCHANGED <<config, counters, sendflow, recvflow, send, recv, send_streams,
                     pending, events, connection_blocked>>

\* C35 as stated: retransmit(meta) on an existing send stream queues the
\* byte range of meta for retransmission, sets fin_pending when meta.fin is
\* set and leaves the stream in the pending queue; for an id without a send
\* entry it changes nothing
AnyStream(s) == TRUE
NotReset(s) == ~SendIsReset(s)
RetransmitQueues ==
    [][\A f \in inflight : Retransmit(f) => RetransmitStep(f, NotReset)]_vars

LostByteWaits(id, x) ==
    id \in DOMAIN send /\ ~SendIsReset(send[id]) /\ x \in LostBytes(send[id])
\* the FIN of the stream waits for transmission and the stream is not reset
FinWaits(id) ==
    id \in DOMAIN send /\ ~SendIsReset(send[id]) /\ send[id].fin_pending
\* under repeated write_stream_frames calls a lost byte and a FIN to send
\* leave the queue: they are emitted again, unless the stream is reset or
\* discarded first
RetransmitEmits ==
    \A id \in SendIds :
        /\ \A x \in 0..(MaxOffset - 1) : LostByteWaits(id, x) ~> ~LostByteWaits(id, x)
        /\ FinWaits(id) ~> ~FinWaits(id)

CreditWithinReceived == local_max_data - receive_window <= data_recvd

\* ---- C37 ----
\* C37: a stream id occurs at most once in the pending queue in every
\* reachable state, whatever the interleaving of write (empty writes
\* included), finish, retransmit, retransmit_all_for_0rtt, received_ack_of
\* and write_stream_frames
PendingUnique ==
    \A i, j \in DOMAIN pending : pending[i] = pending[j] => i = j

\* ---- C38 ----
RECURSIVE UnackedOver(_)
\* the bytes written and not yet acknowledged of the send streams in ids
UnackedOver(ids) ==
    IF ids = {} THEN 0
    ELSE LET id == CHOOSE x \in ids : TRUE
         IN SBUnacked(send[id].pending) + UnackedOver(ids \ {id})
\* C38: unacked_data is the sum, over the send streams that exist and are
\* not reset, of the bytes written to the stream and not yet acknowledged;
\* reset, removal on completion and zero_rtt_rejected leave no bytes of the
\* discarded stream counted against send_window
UnackedIsLiveSum ==
    unacked_data = UnackedOver({id \in DOMAIN send : SendLive(id)})

\* ---- C39 ----
\* the send entries send_streams is meant to count: those of locally opened
\* streams and of peer-initiated Bi streams that accept has handed out
SendCounted ==
    {id \in DOMAIN send :
        \/ Initiator(id) = side
        \/ IdDir(id) = "Bi" /\ Index(id) < next_reported_remote["Bi"]}
\* C39: send_streams is the number of send entries of locally opened streams
\* and of accepted peer-initiated Bi streams; it never underflows and never
\* keeps counting a stream whose send entry is gone
SendStreamsCount == send_streams = Cardinality(SendCounted)

====
